---- MODULE Spec2Model ----
(***************************************************************************)
(* The trace-delta replay engine of renderer/manim_renderer.py             *)
(* (SVLManimRenderer) as a state machine.  The renderer object's fields    *)
(* are the variables; every operation handler (_animate_...) is an operator*)
(* from the renderer state and the operation's params to the new renderer  *)
(* state; the actions reveal the trace document one entry at a time and    *)
(* apply it, as construct() and _apply_delta_with_animation() do.          *)
(*                                                                         *)
(* JSON objects are records; a key that is absent (dict.get -> None) is a  *)
(* field that is absent.  Python lists are sequences (index i of the code  *)
(* is position i+1 here).  An object of the trace document that the code   *)
(* stores in its own state without copying carries the field "_ref", the   *)
(* place of the operation it came from: the engine's element and the       *)
(* document's parameter are one Python object, and SyncDoc writes every    *)
(* change of the one through to the other.                                 *)
(***************************************************************************)
EXTENDS Integers, Sequences, FiniteSets, TLC

VARIABLES
    svl_data,               \* the in-memory trace document (self.svl_data)
    file_data,              \* the document as json.load produced it (history)
    family,                 \* which family of operations the trace uses
    pc,                     \* "new" before __init__, "replay" after it
    render_config,          \* ConfigurableSVLRenderer.render_config
    data_type,              \* self.data_type
    current_data_state,     \* self.current_data_state
    current_aux_views,      \* self.current_aux_views
    current_variables,      \* self.current_variables
    temp_elements,          \* self.temp_elements
    dependencies,           \* self.dependencies
    current_comment_text,   \* self.current_comment_text
    fast_mode,              \* self.fast_mode
    replay,                 \* SpecReplay: which replay of the document runs
    pos,                    \* SpecReplay: loop position <<delta, group, op>>
    applied,                \* SpecReplay: places of the entries handed to a handler
    final1,                 \* SpecReplay: renderer state at the end of replay 1
    batch_pc,               \* SpecBatch: position of llm_render.py's main program
    batch_args,             \* SpecBatch: directory listing, --tune-once, --max-workers
    trace_files,            \* SpecBatch: the traces collected, sorted
    tasks,                  \* SpecBatch: the pipeline of every trace in the pool
    results,                \* SpecBatch: the result records, in order of completion
    written,                \* SpecBatch: which pipeline wrote which file
    api_pc,                 \* SpecApi: position of call_api
    api_args,               \* SpecApi: max_retries and the kind of call
    attempt,                \* SpecApi: the loop variable of call_api
    outcomes,               \* SpecApi: outcome of every attempt made
    slept,                  \* SpecApi: the delays call_api slept, in milliseconds
    gen                     \* SpecGen: the locals of generate_with_retry and its calls

vars == <<svl_data, file_data, family, pc, render_config, data_type,
          current_data_state, current_aux_views, current_variables,
          temp_elements, dependencies, current_comment_text, fast_mode,
          replay, pos, applied, final1,
          batch_pc, batch_args, trace_files, tasks, results, written,
          api_pc, api_args, attempt, outcomes, slept, gen>>

(***************************************************************************)
(* Bounds of the model.                                                    *)
(***************************************************************************)
MaxOps == 2         \* operations of one trace
MaxDeltas == 2      \* deltas of one trace
ArrLen == 3         \* cells of the main array
MaxSieveN == 10     \* largest input of the sieve tracker

(***************************************************************************)
(* Program constants.                                                      *)
(***************************************************************************)
MaxComparePairs == 6

None == "<None>"

(***************************************************************************)
(* Python dict and list helpers.                                           *)
(***************************************************************************)
Has(d, k) == k \in DOMAIN d
Get(d, k) == IF k \in DOMAIN d THEN d[k] ELSE None
GetOr(d, k, dflt) == IF k \in DOMAIN d THEN d[k] ELSE dflt
Put(d, k, v) == [f \in (DOMAIN d) \cup {k} |-> IF f = k THEN v ELSE d[f]]
Del(d, k) == [f \in (DOMAIN d) \ {k} |-> d[f]]
Range(s) == {s[i] : i \in DOMAIN s}
Min2(a, b) == IF a <= b THEN a ELSE b
Max2(a, b) == IF a <= b THEN b ELSE a
Take(s, n) == SubSeq(s, 1, Min2(n, Len(s)))
InBounds(i, n) == 0 <= i /\ i < n

\* a removal of every match, which list.remove is not
RemoveEvery(s, x) == SelectSeq(s, LAMBDA y : y # x)

\* list.remove(x): the first match, ValueError (caught by the caller) if none
RemoveFirst(s, x) ==
    IF \E i \in DOMAIN s : s[i] = x
    THEN LET i == CHOOSE j \in DOMAIN s : s[j] = x /\ \A h \in 1..(j - 1) : s[h] # x
         IN  SubSeq(s, 1, i - 1) \o SubSeq(s, i + 1, Len(s))
    ELSE s

\* list.pop(i) for an index i of the code that is in range
PopAt(s, i) == SubSeq(s, 1, i) \o SubSeq(s, i + 2, Len(s))

\* list.insert(i, x) for 0 <= i <= len
InsertAt(s, i, x) == SubSeq(s, 1, i) \o <<x>> \o SubSeq(s, i + 1, Len(s))

RECURSIVE SortedSeq(_)
SortedSeq(S) ==
    IF S = {} THEN <<>>
    ELSE LET m == CHOOSE x \in S : \A y \in S : x <= y
         IN  <<m>> \o SortedSeq(S \ {m})

(***************************************************************************)
(* The renderer object: the fields the handlers read and write.            *)
(***************************************************************************)
Self == [at |-> <<0, 0, 0>>,
         data_type |-> data_type,
         current_data_state |-> current_data_state,
         current_aux_views |-> current_aux_views,
         current_variables |-> current_variables,
         temp_elements |-> temp_elements,
         dependencies |-> dependencies,
         current_comment_text |-> current_comment_text,
         fast_mode |-> fast_mode]

\* the state a replay is compared on
Observable(self) == [data_type |-> self.data_type,
                     current_data_state |-> self.current_data_state,
                     current_aux_views |-> self.current_aux_views,
                     current_variables |-> self.current_variables,
                     temp_elements |-> self.temp_elements,
                     dependencies |-> self.dependencies,
                     current_comment_text |-> self.current_comment_text]

(***************************************************************************)
(* Array operations.                                                       *)
(***************************************************************************)
GetArrayListRef(self) ==
    IF self.data_type # "array" THEN None
    ELSE IF Has(self.current_data_state, "data") THEN "data"
    ELSE IF Has(self.current_data_state, "structure") THEN "structure"
    ELSE None

SetArray(self, key, arr) ==
    [self EXCEPT !.current_data_state = Put(self.current_data_state, key, arr)]

\* "compare" in str(style_key).lower()
IsCompareStyle(style_key) == style_key \in {"compare", "comparing"}

RECURSIVE PairsFrom(_, _, _)
PairsFrom(u, x, y) ==
    IF x > Len(u) THEN <<>>
    ELSE IF y > Len(u) THEN PairsFrom(u, x + 1, x + 2)
    ELSE <<[a |-> u[x], b |-> u[y]]>> \o PairsFrom(u, x, y + 1)

\* the nested loops of lines 1696-1703, which stop at 6 pairs
ComparePairs(uniq) == Take(PairsFrom(uniq, 1, 2), MaxComparePairs)

\* lines 1705-1718: extend the first array_compare record of the style, or add one
MergeComparePairs(temps, style_key, pairs) ==
    IF \E i \in DOMAIN temps :
           temps[i].type = "array_compare" /\ Get(temps[i], "styleKey") = style_key
    THEN LET i == CHOOSE j \in DOMAIN temps :
                     /\ temps[j].type = "array_compare"
                     /\ Get(temps[j], "styleKey") = style_key
                     /\ \A h \in 1..(j - 1) :
                            ~(temps[h].type = "array_compare"
                              /\ Get(temps[h], "styleKey") = style_key)
         IN  [temps EXCEPT ![i] = Put(temps[i], "pairs", temps[i].pairs \o pairs)]
    ELSE Append(temps, [type |-> "array_compare", pairs |-> pairs,
                        styleKey |-> style_key])

AnimateUpdateStyle(self, params) ==
    LET key == GetArrayListRef(self) IN
    IF self.data_type # "array" \/ key = None THEN self
    ELSE
    LET arr == self.current_data_state[key] IN
    IF arr = <<>> THEN self
    ELSE
    LET style_key == Get(params, "styleKey")
        indices == GetOr(params, "indices", <<>>)
        arr1 == [i \in DOMAIN arr |->
                    IF \E j \in DOMAIN indices : indices[j] = i - 1
                    THEN Put(arr[i], "state", style_key) ELSE arr[i]]
        valid == SelectSeq(indices, LAMBDA i : InBounds(i, Len(arr)))
        uniq == SortedSeq(Range(valid))
        pairs == ComparePairs(uniq)
        s1 == SetArray(self, key, arr1)
    IN  IF IsCompareStyle(style_key) /\ Len(indices) >= 2 /\ Len(valid) >= 2
           /\ pairs # <<>>
        THEN [s1 EXCEPT !.temp_elements =
                  MergeComparePairs(self.temp_elements, style_key, pairs)]
        ELSE s1

\* the pairs in bounds with distinct ends, every occurrence kept
RECURSIVE ValidPairsRepeated(_, _, _, _)
ValidPairsRepeated(pairs, i, n, undirected) ==
    IF i > Len(pairs) THEN <<>>
    ELSE
    LET p == pairs[i] IN
    IF /\ Has(p, "fromIndex") /\ Has(p, "toIndex") /\ p.fromIndex # p.toIndex
       /\ InBounds(p.fromIndex, n) /\ InBounds(p.toIndex, n)
    THEN <<<<p.fromIndex, p.toIndex>>>> \o ValidPairsRepeated(pairs, i + 1, n, undirected)
    ELSE ValidPairsRepeated(pairs, i + 1, n, undirected)

\* lines 1750-1761: the pairs kept, in order, one per unordered index pair
RECURSIVE ValidPairs(_, _, _, _)
ValidPairs(pairs, i, n, undirected) ==
    IF i > Len(pairs) THEN <<>>
    ELSE
    LET p == pairs[i] IN
    IF ~Has(p, "fromIndex") \/ ~Has(p, "toIndex") THEN ValidPairs(pairs, i + 1, n, undirected)
    ELSE IF p.fromIndex = p.toIndex THEN ValidPairs(pairs, i + 1, n, undirected)
    ELSE IF InBounds(p.fromIndex, n) /\ InBounds(p.toIndex, n)
    THEN LET k == <<Min2(p.fromIndex, p.toIndex), Max2(p.fromIndex, p.toIndex)>> IN
         IF k \in undirected THEN ValidPairs(pairs, i + 1, n, undirected)
         ELSE <<<<p.fromIndex, p.toIndex>>>>
              \o ValidPairs(pairs, i + 1, n, undirected \cup {k})
    ELSE ValidPairs(pairs, i + 1, n, undirected)

\* an assignment of one cell only, which the exchange of line 1767 is not
CopyCell(arr, src, dst) ==
    [arr EXCEPT ![src + 1] = Put(arr[dst + 1], "index", src)]

\* a removal of the source cell, which the exchange of line 1767 is not
DropCell(arr, src, dst) == PopAt(arr, src)

\* lines 1767-1768: arr[src], arr[dst] = arr[dst], arr[src], then the index fields
SwapCells(arr, src, dst) ==
    [arr EXCEPT ![src + 1] = Put(arr[dst + 1], "index", src),
                ![dst + 1] = Put(arr[src + 1], "index", dst)]

RECURSIVE ApplySwaps(_, _, _)
ApplySwaps(arr, valid_pairs, i) ==
    IF i > Len(valid_pairs) THEN arr
    ELSE ApplySwaps(SwapCells(arr, valid_pairs[i][1], valid_pairs[i][2]),
                    valid_pairs, i + 1)

\* line 1776: one record per unordered pair.  The code iterates a set of int
\* tuples, whose order CPython fixes for a given content; here by (a, b).
RECURSIVE PairSeq(_)
PairSeq(S) ==
    IF S = {} THEN <<>>
    ELSE LET m == CHOOSE x \in S :
                      \A y \in S : x[1] < y[1] \/ (x[1] = y[1] /\ x[2] <= y[2])
         IN  <<[a |-> m[1], b |-> m[2]]>> \o PairSeq(S \ {m})

RecPairs(valid_pairs) ==
    PairSeq({<<Min2(valid_pairs[i][1], valid_pairs[i][2]),
               Max2(valid_pairs[i][1], valid_pairs[i][2])>> : i \in DOMAIN valid_pairs})

AnimateMoveElements(self, params) ==
    LET key == GetArrayListRef(self) IN
    IF self.data_type # "array" \/ key = None THEN self
    ELSE
    LET arr == self.current_data_state[key] IN
    IF arr = <<>> THEN self
    ELSE
    LET pairs == GetOr(params, "pairs", <<>>)
        valid_pairs == ValidPairs(pairs, 1, Len(arr), {})
    IN  IF valid_pairs = <<>> THEN self
        ELSE
        LET s1 == SetArray(self, key, ApplySwaps(arr, valid_pairs, 1)) IN
        IF Get(params, "animationKey") = "swap"
        THEN [s1 EXCEPT !.temp_elements =
                  Append(self.temp_elements,
                         [type |-> "swap_arrows", pairs |-> RecPairs(valid_pairs),
                          styleKey |-> GetOr(params, "styleKey", "arrow")])]
        ELSE s1

AnimateShiftElements(self, params) ==
    IF self.data_type # "array" THEN self
    ELSE
    LET shifts == GetOr(params, "shifts", <<>>)
        pairs == [i \in DOMAIN shifts |-> shifts[i]]
    IN  AnimateMoveElements(self, Put(params, "pairs", pairs))

\* an update loop that writes nothing, which lines 1835-1838 are not
SkipUpdates(arr, updates, i) == arr

\* arr[idx]["value"] = val for every update whose index is in range, in order
RECURSIVE ApplyUpdates(_, _, _)
ApplyUpdates(arr, updates, i) ==
    IF i > Len(updates) THEN arr
    ELSE LET u == updates[i] IN
         IF Has(u, "index") /\ InBounds(u.index, Len(arr))
         THEN ApplyUpdates([arr EXCEPT ![u.index + 1] =
                                Put(arr[u.index + 1], "value", Get(u, "value"))],
                           updates, i + 1)
         ELSE ApplyUpdates(arr, updates, i + 1)

\* dict.get(i) on {position: value}: None out of range
ValueAt(arr, i) == IF InBounds(i, Len(arr)) THEN arr[i + 1].value ELSE None

\* list({(p["a"], p["b"]): p for p in pairs}.values()): first places kept
RECURSIVE DedupPairs(_, _)
DedupPairs(pairs, seen) ==
    IF pairs = <<>> THEN <<>>
    ELSE IF Head(pairs) \in seen THEN DedupPairs(Tail(pairs), seen)
    ELSE <<Head(pairs)>> \o DedupPairs(Tail(pairs), seen \cup {Head(pairs)})

\* lines 1846-1850: the index pairs whose values were exchanged by the updates,
\* in the order of the two loops
RECURSIVE SwappedPairs(_, _, _, _, _)
SwappedPairs(snapshot, arr, updated_indices, i, j) ==
    IF i > Len(updated_indices) THEN <<>>
    ELSE IF j > Len(updated_indices)
    THEN SwappedPairs(snapshot, arr, updated_indices, i + 1, i + 2)
    ELSE LET ui == updated_indices[i]
             uj == updated_indices[j]
             rest == SwappedPairs(snapshot, arr, updated_indices, i, j + 1)
         IN  IF /\ ui # uj
                /\ ValueAt(arr, ui) = ValueAt(snapshot, uj)
                /\ ValueAt(arr, uj) = ValueAt(snapshot, ui)
             THEN <<[a |-> Min2(ui, uj), b |-> Max2(ui, uj)]>> \o rest
             ELSE rest

AnimateUpdateValues(self, params) ==
    LET key == GetArrayListRef(self) IN
    IF self.data_type # "array" \/ key = None THEN self
    ELSE
    LET snapshot == self.current_data_state[key] IN
    IF snapshot = <<>> THEN self
    ELSE
    LET updates == GetOr(params, "updates", <<>>)
        arr == ApplyUpdates(snapshot, updates, 1)
        withIndex == SelectSeq(updates, LAMBDA u : Has(u, "index"))
        updated_indices == [i \in DOMAIN withIndex |-> withIndex[i].index]
        pairs == SwappedPairs(snapshot, arr, updated_indices, 1, 2)
        s1 == SetArray(self, key, arr)
        s2 == IF pairs # <<>>
              THEN [s1 EXCEPT !.temp_elements =
                        Append(self.temp_elements,
                               [type |-> "swap_arrows", pairs |-> DedupPairs(pairs, {}),
                                styleKey |-> GetOr(params, "styleKey", "arrow")])]
              ELSE s1
        changed == SelectSeq(updated_indices, LAMBDA i : InBounds(i, Len(arr)))
    IN  IF self.fast_mode THEN s2
        ELSE IF changed # <<>>
        THEN [s2 EXCEPT !.temp_elements =
                  Append(s2.temp_elements,
                         [type |-> "array_change_flash", indices |-> changed,
                          styleKey |-> GetOr(params, "styleKey", "changed")])]
        ELSE s2

(***************************************************************************)
(* Shared helpers of the structural operations.                            *)
(***************************************************************************)
\* Python truth of an id or text: None and "" are false
Truthy(x) == x # None /\ x # ""

\* position of the first element passing Test, 0 if none
FirstIndex(s, Test(_)) ==
    IF \E i \in DOMAIN s : Test(s[i])
    THEN CHOOSE i \in DOMAIN s : Test(s[i]) /\ \A h \in 1..(i - 1) : ~Test(s[h])
    ELSE 0

\* {**d1, **d2}
Merge(d1, d2) ==
    [f \in (DOMAIN d1) \cup (DOMAIN d2) |-> IF f \in DOMAIN d2 THEN d2[f] ELSE d1[f]]

\* an object of the document stored as it is: the same Python object
Alias(obj, at) == Put(obj, "_ref", at)

Struct(self) == self.current_data_state.structure
SetStruct(self, struct) ==
    [self EXCEPT !.current_data_state = Put(self.current_data_state, "structure", struct)]
HasStruct(self) == Has(self.current_data_state, "structure")

(***************************************************************************)
(* Table and annotation operations.                                        *)
(***************************************************************************)
\* update_table_data, lines 1987-1991
RECURSIVE UpdateTableData(_, _, _)
UpdateTableData(table_data, updates, i) ==
    IF i > Len(updates) THEN table_data
    ELSE LET u == updates[i] IN
         IF /\ Has(u, "row") /\ Has(u, "col")
            /\ InBounds(u.row, Len(table_data))
            /\ InBounds(u.col, Len(table_data[u.row + 1]))
         THEN UpdateTableData([table_data EXCEPT ![u.row + 1][u.col + 1] = Get(u, "value")],
                              updates, i + 1)
         ELSE UpdateTableData(table_data, updates, i + 1)

MainTableIds(self) ==
    {None, GetOr(self.current_data_state, "view_id", "main_table"),
     "dp_table", "data_state", "main_table"}

AnimateUpdateTableCell(self, params) ==
    LET view_id == Get(params, "view_id")
        updates == GetOr(params, "updates", <<>>)
        views == [i \in DOMAIN self.current_aux_views |->
                    LET view == self.current_aux_views[i] IN
                    IF Get(view, "view_id") = view_id /\ Get(view, "type") = "table"
                       /\ Has(view, "data")
                    THEN Put(view, "data", UpdateTableData(view.data, updates, 1))
                    ELSE view]
        s1 == [self EXCEPT !.current_aux_views = views]
    IN  IF self.data_type = "table" /\ view_id \in MainTableIds(self)
           /\ Has(self.current_data_state, "data")
        THEN [s1 EXCEPT !.current_data_state =
                  Put(self.current_data_state, "data",
                      UpdateTableData(self.current_data_state.data, updates, 1))]
        ELSE s1

AnimateHighlightTableCell(self, params) ==
    [self EXCEPT !.temp_elements =
         Append(self.temp_elements, Merge([type |-> "table_highlight"], params))]

AnimateShowDependency(self, params) ==
    [self EXCEPT !.dependencies = Append(self.dependencies, params)]

AnimateUpdateBoundary(self, params) ==
    [self EXCEPT !.temp_elements =
         Append(self.temp_elements,
                Put(Merge([type |-> "boundary_box",
                           original_type |-> Get(params, "type")], params),
                    "type", "boundary_box"))]

AnimateRemoveBoundary(self, params) ==
    LET type_to_remove == Get(params, "type") IN
    [self EXCEPT !.temp_elements =
         SelectSeq(self.temp_elements,
                   LAMBDA e : ~(Get(e, "type") = "boundary_box"
                                /\ Get(e, "original_type") = type_to_remove))]

AnimateShowComment(self, params) ==
    LET text == Get(params, "text") IN
    IF Truthy(text) THEN [self EXCEPT !.current_comment_text = text] ELSE self

(***************************************************************************)
(* Graph operations.                                                       *)
(***************************************************************************)
NodeIds(nodes) == {Get(nodes[i], "id") : i \in DOMAIN nodes}

\* an addNode that makes any trace a graph trace, which line 2052 forbids
AnimateAddNodeRetyping(self, params) ==
    [self EXCEPT !.data_type = "graph",
                 !.current_data_state = Put(self.current_data_state, "type", "graph")]

AnimateAddNode(self, params) ==
    IF self.data_type # "graph" THEN self
    ELSE IF ~Has(params, "node") THEN self
    ELSE LET node == params.node IN
         IF ~Truthy(Get(node, "id")) \/ ~HasStruct(self) THEN self
         ELSE LET struct == Struct(self)
                  nodes == GetOr(struct, "nodes", <<>>)
              IN  IF node.id \notin NodeIds(nodes)
                  THEN SetStruct(self, Put(struct, "nodes",
                                           Append(nodes, Alias(node, self.at))))
                  ELSE SetStruct(self, Put(struct, "nodes", nodes))

\* a removeNode that also deletes the edges at the node
RemoveNodeCascading(self, params) ==
    IF self.data_type # "graph" \/ ~HasStruct(self) THEN self
    ELSE LET struct == Struct(self) IN
         SetStruct(self,
             Put(Put(struct, "nodes",
                     SelectSeq(GetOr(struct, "nodes", <<>>),
                               LAMBDA n : Get(n, "id") # Get(params, "id"))),
                 "edges",
                 SelectSeq(GetOr(struct, "edges", <<>>),
                           LAMBDA e : /\ Get(e, "from") # Get(params, "id")
                                      /\ Get(e, "to") # Get(params, "id"))))

AnimateRemoveNode(self, params) ==
    IF self.data_type # "graph" THEN self
    ELSE LET node_id == Get(params, "id") IN
         IF ~Truthy(node_id) \/ ~HasStruct(self) THEN self
         ELSE LET struct == Struct(self) IN
              SetStruct(self, Put(struct, "nodes",
                  SelectSeq(GetOr(struct, "nodes", <<>>),
                            LAMBDA n : Get(n, "id") # node_id)))

\* _create_graph_view lines 1047-1052: an edge is drawn only when both its
\* endpoints are among the nodes drawn
DrawnEdges(state) ==
    LET struct == GetOr(state, "structure", <<>>) IN
    SelectSeq(GetOr(struct, "edges", <<>>),
              LAMBDA e : /\ Get(e, "from") \in NodeIds(GetOr(struct, "nodes", <<>>))
                         /\ Get(e, "to") \in NodeIds(GetOr(struct, "nodes", <<>>)))

AnimateAddEdge(self, params) ==
    IF self.data_type # "graph" THEN self
    ELSE IF ~Has(params, "edge") \/ ~HasStruct(self) THEN self
    ELSE LET struct == Struct(self) IN
         SetStruct(self, Put(struct, "edges",
             Append(GetOr(struct, "edges", <<>>), Alias(params.edge, self.at))))

AnimateRemoveEdge(self, params) ==
    IF self.data_type # "graph" THEN self
    ELSE LET from_id == Get(params, "from")
             to_id == Get(params, "to")
         IN  IF ~(Truthy(from_id) /\ Truthy(to_id)) \/ ~HasStruct(self) THEN self
             ELSE LET struct == Struct(self) IN
                  SetStruct(self, Put(struct, "edges",
                      SelectSeq(GetOr(struct, "edges", <<>>),
                                LAMBDA e : ~(Get(e, "from") = from_id
                                             /\ Get(e, "to") = to_id))))

AnimateUpdateNodeStyle(self, params) ==
    IF self.data_type \notin {"graph", "tree"} \/ ~HasStruct(self) THEN self
    ELSE LET struct == Struct(self)
             ids == Range(GetOr(params, "ids", <<>>))
             style_key == Get(params, "styleKey")
         IN  IF ~Has(struct, "nodes") THEN self
             ELSE SetStruct(self, Put(struct, "nodes",
                      [i \in DOMAIN struct.nodes |->
                          IF Get(struct.nodes[i], "id") \in ids
                          THEN Put(struct.nodes[i], "styleKey", style_key)
                          ELSE struct.nodes[i]]))

\* node_dict = {id: node}: of two nodes with one id the later one
LastWithId(nodes, id) ==
    IF \E i \in DOMAIN nodes : Get(nodes[i], "id") = id
    THEN CHOOSE i \in DOMAIN nodes :
             Get(nodes[i], "id") = id
             /\ \A h \in (i + 1)..Len(nodes) : Get(nodes[h], "id") # id
    ELSE 0

RECURSIVE ApplyPropertyUpdates(_, _, _)
ApplyPropertyUpdates(nodes, updates, i) ==
    IF i > Len(updates) THEN nodes
    ELSE LET update == updates[i]
             k == LastWithId(nodes, Get(update, "id"))
         IN  IF k = 0 THEN ApplyPropertyUpdates(nodes, updates, i + 1)
             ELSE ApplyPropertyUpdates(
                      [nodes EXCEPT ![k] =
                          Put(nodes[k], "properties",
                              Merge(GetOr(nodes[k], "properties", <<>>),
                                    GetOr(update, "properties", <<>>)))],
                      updates, i + 1)

AnimateUpdateNodeProperties(self, params) ==
    IF self.data_type \notin {"graph", "tree"} \/ ~HasStruct(self) THEN self
    ELSE LET struct == Struct(self) IN
         IF ~Has(struct, "nodes") THEN self
         ELSE SetStruct(self, Put(struct, "nodes",
                  ApplyPropertyUpdates(struct.nodes, GetOr(params, "updates", <<>>), 1)))

AnimateUpdateEdgeStyle(self, params) ==
    IF self.data_type \notin {"graph", "tree"} \/ ~HasStruct(self) THEN self
    ELSE LET struct == Struct(self)
             pe == GetOr(params, "edges", <<>>)
             edge_keys == {<<Get(pe[i], "from"), Get(pe[i], "to")>> : i \in DOMAIN pe}
             style_key == Get(params, "styleKey")
         IN  IF ~Has(struct, "edges") THEN self
             ELSE SetStruct(self, Put(struct, "edges",
                      [i \in DOMAIN struct.edges |->
                          IF <<Get(struct.edges[i], "from"), Get(struct.edges[i], "to")>>
                                 \in edge_keys
                          THEN Put(struct.edges[i], "styleKey", style_key)
                          ELSE struct.edges[i]]))

(***************************************************************************)
(* Auxiliary views and their lists.  A view whose data is a dict of named  *)
(* lists (isinstance(data, dict)) has the type "lists"; any other view's   *)
(* data is a list.                                                         *)
(***************************************************************************)
AnimateAddAuxView(self, params) ==
    IF ~Has(params, "view") THEN self
    ELSE [self EXCEPT !.current_aux_views =
              Append(self.current_aux_views, Alias(params.view, self.at))]

AnimateRemoveAuxView(self, params) ==
    LET view_id_to_remove == Get(params, "view_id") IN
    [self EXCEPT !.current_aux_views =
         SelectSeq(self.current_aux_views,
                   LAMBDA v : Get(v, "view_id") # view_id_to_remove)]

\* position of the view, 0 for None
FindAuxViewById(self, view_id) ==
    FirstIndex(self.current_aux_views, LAMBDA v : Get(v, "view_id") = view_id)

IsDictData(view) == Get(view, "type") = "lists"

AnimateAppendToList(self, params) ==
    LET view_id == Get(params, "view_id")
        value == Get(params, "value")
        found == FindAuxViewById(self, view_id)
        views == IF found = 0
                 THEN Append(self.current_aux_views,
                             [view_id |-> view_id, type |-> "list",
                              title |-> view_id, data |-> <<>>])
                 ELSE self.current_aux_views
        k == IF found = 0 THEN Len(views) ELSE found
        view == views[k]
    IN  IF IsDictData(view)
        THEN IF ~Has(params, "list_key")
             THEN [self EXCEPT !.current_aux_views = views]
             ELSE LET data == view.data
                      lst == GetOr(data, params.list_key, <<>>)
                  IN  [self EXCEPT !.current_aux_views =
                           [views EXCEPT ![k] =
                               Put(view, "data",
                                   Put(data, params.list_key, Append(lst, value)))]]
        ELSE [self EXCEPT !.current_aux_views =
                  [views EXCEPT ![k] =
                      Put(view, "data", Append(GetOr(view, "data", <<>>), value))]]

\* lines 2155-2165: one removal mode, by value, by index, head or tail
PopFrom(lst, params) ==
    IF Has(params, "value") THEN RemoveFirst(lst, params.value)
    ELSE IF Has(params, "index") /\ InBounds(GetOr(params, "index", -1), Len(lst))
    THEN PopAt(lst, params.index)
    ELSE IF Get(params, "from") = "head" /\ lst # <<>> THEN Tail(lst)
    ELSE IF Get(params, "from") = "tail" /\ lst # <<>> THEN SubSeq(lst, 1, Len(lst) - 1)
    ELSE lst

AnimatePopFromList(self, params) ==
    LET found == FindAuxViewById(self, Get(params, "view_id")) IN
    IF found = 0 THEN self
    ELSE LET view == self.current_aux_views[found] IN
         IF ~Has(view, "data") THEN self
         ELSE IF IsDictData(view)
         THEN IF ~Has(params, "list_key") THEN self
              ELSE IF ~Has(view.data, params.list_key) THEN self
              ELSE [self EXCEPT !.current_aux_views[found] =
                        Put(view, "data",
                            Put(view.data, params.list_key,
                                PopFrom(view.data[params.list_key], params)))]
         ELSE [self EXCEPT !.current_aux_views[found] =
                   Put(view, "data", PopFrom(view.data, params))]

AnimateClearList(self, params) ==
    LET found == FindAuxViewById(self, Get(params, "view_id")) IN
    IF found = 0 THEN self
    ELSE LET view == self.current_aux_views[found] IN
         IF ~Has(view, "data") THEN self
         ELSE IF IsDictData(view)
         THEN [self EXCEPT !.current_aux_views[found] =
                   Put(view, "data", [k \in DOMAIN view.data |-> <<>>])]
         ELSE [self EXCEPT !.current_aux_views[found] = Put(view, "data", <<>>)]

(***************************************************************************)
(* Hashtable operations.                                                   *)
(***************************************************************************)
AnimateInsertIntoBucket(self, params) ==
    IF self.data_type # "hashtable" THEN self
    ELSE IF ~Has(params, "bucket_index") \/ ~Has(params, "element") THEN self
    ELSE IF ~HasStruct(self) THEN self
    ELSE LET struct == Struct(self)
             buckets == GetOr(struct, "buckets", <<>>)
             b == params.bucket_index
         IN  IF InBounds(b, Len(buckets))
             THEN LET bucket == buckets[b + 1]
                      items == GetOr(bucket, "items", <<>>)
                  IN  SetStruct(self, Put(struct, "buckets",
                          [buckets EXCEPT ![b + 1] =
                              Put(bucket, "items",
                                  Append(items, Alias(params.element, self.at)))]))
             ELSE self

AnimateUpdateInBucket(self, params) ==
    IF self.data_type # "hashtable" THEN self
    ELSE IF ~Has(params, "bucket_index") \/ ~Has(params, "key") THEN self
    ELSE IF ~HasStruct(self) THEN self
    ELSE LET struct == Struct(self)
             buckets == GetOr(struct, "buckets", <<>>)
             b == params.bucket_index
         IN  IF InBounds(b, Len(buckets))
             THEN LET bucket == buckets[b + 1]
                      items == GetOr(bucket, "items", <<>>)
                      k == FirstIndex(items, LAMBDA item : Get(item, "key") = params.key)
                  IN  IF k = 0 THEN self
                      ELSE SetStruct(self, Put(struct, "buckets",
                               [buckets EXCEPT ![b + 1] =
                                   Put(bucket, "items",
                                       [items EXCEPT ![k] =
                                           Put(items[k], "value",
                                               Get(params, "value"))])]))
             ELSE self

\* a removal that empties the bucket, which the filter of line 2262 does not
EmptyBucket(self, params) ==
    IF self.data_type # "hashtable" \/ ~HasStruct(self) THEN self
    ELSE IF ~InBounds(GetOr(params, "bucket_index", -1), Len(GetOr(Struct(self), "buckets", <<>>)))
    THEN self
    ELSE SetStruct(self, Put(Struct(self), "buckets",
             [Struct(self).buckets EXCEPT ![params.bucket_index + 1] =
                 Put(@, "items", <<>>)]))

AnimateRemoveFromBucket(self, params) ==
    IF self.data_type # "hashtable" THEN self
    ELSE IF ~Has(params, "bucket_index") \/ ~Has(params, "key") THEN self
    ELSE IF ~HasStruct(self) THEN self
    ELSE LET struct == Struct(self)
             buckets == GetOr(struct, "buckets", <<>>)
             b == params.bucket_index
         IN  IF InBounds(b, Len(buckets))
             THEN LET bucket == buckets[b + 1]
                      items == GetOr(bucket, "items", <<>>)
                  IN  SetStruct(self, Put(struct, "buckets",
                          [buckets EXCEPT ![b + 1] =
                              Put(bucket, "items",
                                  SelectSeq(items,
                                      LAMBDA item : Get(item, "key") # params.key))]))
             ELSE self

(***************************************************************************)
(* Tree operations.                                                        *)
(***************************************************************************)
\* an attachment that forgets the children the parent had, which lines 2288-2293 do not
ReplaceChildren(children, node_id, params) == <<node_id>>

\* lines 2289-2293 and 2357-2361: children.insert(index, id) or append, once
AttachChild(children, node_id, params) ==
    IF \E i \in DOMAIN children : children[i] = node_id THEN children
    ELSE IF Has(params, "index") /\ 0 <= GetOr(params, "index", -1)
            /\ GetOr(params, "index", -1) <= Len(children)
    THEN InsertAt(children, params.index, node_id)
    ELSE Append(children, node_id)

AnimateAddChild(self, params) ==
    IF self.data_type # "tree" THEN self
    ELSE IF ~Has(params, "node") \/ ~HasStruct(self) THEN self
    ELSE
    LET parent_id == Get(params, "parent_id")
        node == params.node
        struct == Struct(self)
        nodes0 == GetOr(struct, "nodes", <<>>)
        node_id == Get(node, "id")
        nodes == IF Truthy(node_id) /\ node_id \notin NodeIds(nodes0)
                 THEN Append(nodes0, Alias(node, self.at)) ELSE nodes0
        struct1 == Put(struct, "nodes", nodes)
    IN  IF Truthy(parent_id)
        THEN LET k == FirstIndex(nodes, LAMBDA n : Get(n, "id") = parent_id) IN
             IF k = 0 THEN SetStruct(self, struct1)
             ELSE SetStruct(self, Put(struct, "nodes",
                      [nodes EXCEPT ![k] =
                          Put(nodes[k], "children",
                              AttachChild(GetOr(nodes[k], "children", <<>>),
                                          node_id, params))]))
        ELSE IF ~Truthy(Get(struct, "root"))
        THEN SetStruct(self, Put(struct1, "root", node_id))
        ELSE SetStruct(self, struct1)

AnimateRemoveChild(self, params) ==
    IF self.data_type # "tree" THEN self
    ELSE
    LET parent_id == Get(params, "parent_id")
        child_id == Get(params, "child_id")
    IN  IF ~Truthy(parent_id) \/ ~Truthy(child_id) \/ ~HasStruct(self) THEN self
        ELSE LET struct == Struct(self)
                 nodes == GetOr(struct, "nodes", <<>>)
                 k == FirstIndex(nodes, LAMBDA n : Get(n, "id") = parent_id)
             IN  IF k = 0 THEN self
                 ELSE IF ~Has(nodes[k], "children") THEN self
                 ELSE SetStruct(self, Put(struct, "nodes",
                          [nodes EXCEPT ![k] =
                              Put(nodes[k], "children",
                                  RemoveFirst(nodes[k].children, child_id))]))

AnimateReparent(self, params) ==
    IF self.data_type # "tree" THEN self
    ELSE
    LET node_id == Get(params, "node_id")
        new_parent_id == Get(params, "new_parent_id")
    IN  IF ~Truthy(node_id) \/ ~HasStruct(self) THEN self
        ELSE
        LET struct == Struct(self)
            nodes == GetOr(struct, "nodes", <<>>)
            t == FirstIndex(nodes, LAMBDA n : Get(n, "id") = node_id)
        IN  IF t = 0 THEN self
            ELSE
            LET old_parent_id == Get(nodes[t], "parent")
                o == IF Truthy(old_parent_id)
                     THEN FirstIndex(nodes, LAMBDA n : Get(n, "id") = old_parent_id)
                     ELSE 0
                \* detach from the node named by the parent field
                nodes1 == IF o # 0 /\ Has(nodes[o], "children")
                          THEN [nodes EXCEPT ![o] =
                                   Put(nodes[o], "children",
                                       RemoveFirst(nodes[o].children, node_id))]
                          ELSE nodes
                nodes2 == [nodes1 EXCEPT ![t] = Put(nodes1[t], "parent", new_parent_id)]
            IN  IF Truthy(new_parent_id)
                THEN LET n == FirstIndex(nodes2, LAMBDA x : Get(x, "id") = new_parent_id) IN
                     IF n = 0 THEN SetStruct(self, Put(struct, "nodes", nodes2))
                     ELSE SetStruct(self, Put(struct, "nodes",
                              [nodes2 EXCEPT ![n] =
                                  Put(nodes2[n], "children",
                                      AttachChild(GetOr(nodes2[n], "children", <<>>),
                                                  node_id, params))]))
                ELSE SetStruct(self, Put(Put(struct, "nodes", nodes2), "root", node_id))

AnimateSwapNodes(self, params) ==
    IF self.data_type # "tree" THEN self
    ELSE
    LET a_id == Get(params, "a_id")
        b_id == Get(params, "b_id")
    IN  IF ~Truthy(a_id) \/ ~Truthy(b_id) \/ ~HasStruct(self) THEN self
        ELSE
        LET struct == Struct(self)
            nodes == GetOr(struct, "nodes", <<>>)
            \* the loop keeps the last node of each id; a node equal to a_id
            \* is never taken for b
            ia == LastWithId(nodes, a_id)
            ib == IF a_id = b_id THEN 0 ELSE LastWithId(nodes, b_id)
        IN  IF ia = 0 \/ ib = 0 THEN self
            ELSE
            LET swap(ns, f) ==
                    IF Has(ns[ia], f) /\ Has(ns[ib], f)
                    THEN [ns EXCEPT ![ia] = Put(ns[ia], f, ns[ib][f]),
                                    ![ib] = Put(ns[ib], f, ns[ia][f])]
                    ELSE ns
                n1 == swap(nodes, "label")
                n2 == swap(n1, "properties")
                n3 == IF GetOr(params, "swap_children", FALSE)
                      THEN swap(n2, "children") ELSE n2
            IN  SetStruct(self, Put(struct, "nodes", n3))

(***************************************************************************)
(* Dispatch: _process_operation_with_animation and the delta loop.         *)
(***************************************************************************)
AnimateShowHash(self, params) == self
AnimateHighlightCollision(self, params) == self
AnimateHighlightBucket(self, params) == self
AnimateHighlightPath(self, params) == self

\* a fallback that shows the unknown name, which the pass of line 2405 does not
ApplyOperationEcho(self, op_name, params) ==
    [self EXCEPT !.current_comment_text = op_name]

ApplyOperationSilent(self, op_name, params) == self

\* the keys of op_map, lines 279-313
OpMap ==
    {"updateStyle", "moveElements", "shiftElements", "updateValues",
     "updateNodeStyle", "updateNodeProperties", "updateEdgeStyle",
     "updateTableCell", "highlightTableCell", "showDependency",
     "updateBoundary", "removeBoundary", "addNode", "removeNode", "addEdge",
     "removeEdge", "addAuxView", "removeAuxView", "appendToList", "popFromList",
     "clearList", "insertIntoBucket", "updateInBucket", "removeFromBucket",
     "showHash", "highlightCollision", "highlightBucket", "showComment",
     "addChild", "removeChild", "reparent", "swapNodes", "highlightPath"}

ProcessOperationWithAnimation(self, op) ==
    LET op_name == op.op
        params == GetOr(op, "params", <<>>)
    IN  CASE op_name = "updateStyle" -> AnimateUpdateStyle(self, params)
          [] op_name = "moveElements" -> AnimateMoveElements(self, params)
          [] op_name = "shiftElements" -> AnimateShiftElements(self, params)
          [] op_name = "updateValues" -> AnimateUpdateValues(self, params)
          [] op_name = "updateNodeStyle" -> AnimateUpdateNodeStyle(self, params)
          [] op_name = "updateNodeProperties" -> AnimateUpdateNodeProperties(self, params)
          [] op_name = "updateEdgeStyle" -> AnimateUpdateEdgeStyle(self, params)
          [] op_name = "updateTableCell" -> AnimateUpdateTableCell(self, params)
          [] op_name = "highlightTableCell" -> AnimateHighlightTableCell(self, params)
          [] op_name = "showDependency" -> AnimateShowDependency(self, params)
          [] op_name = "updateBoundary" -> AnimateUpdateBoundary(self, params)
          [] op_name = "removeBoundary" -> AnimateRemoveBoundary(self, params)
          [] op_name = "addNode" -> AnimateAddNode(self, params)
          [] op_name = "removeNode" -> AnimateRemoveNode(self, params)
          [] op_name = "addEdge" -> AnimateAddEdge(self, params)
          [] op_name = "removeEdge" -> AnimateRemoveEdge(self, params)
          [] op_name = "addAuxView" -> AnimateAddAuxView(self, params)
          [] op_name = "removeAuxView" -> AnimateRemoveAuxView(self, params)
          [] op_name = "appendToList" -> AnimateAppendToList(self, params)
          [] op_name = "popFromList" -> AnimatePopFromList(self, params)
          [] op_name = "clearList" -> AnimateClearList(self, params)
          [] op_name = "insertIntoBucket" -> AnimateInsertIntoBucket(self, params)
          [] op_name = "updateInBucket" -> AnimateUpdateInBucket(self, params)
          [] op_name = "removeFromBucket" -> AnimateRemoveFromBucket(self, params)
          [] op_name = "showHash" -> AnimateShowHash(self, params)
          [] op_name = "highlightCollision" -> AnimateHighlightCollision(self, params)
          [] op_name = "highlightBucket" -> AnimateHighlightBucket(self, params)
          [] op_name = "showComment" -> AnimateShowComment(self, params)
          [] op_name = "addChild" -> AnimateAddChild(self, params)
          [] op_name = "removeChild" -> AnimateRemoveChild(self, params)
          [] op_name = "reparent" -> AnimateReparent(self, params)
          [] op_name = "swapNodes" -> AnimateSwapNodes(self, params)
          [] op_name = "highlightPath" -> AnimateHighlightPath(self, params)
          [] OTHER -> ApplyOperationSilent(self, op_name, params)

\* line 271: isinstance(op, dict) and op.get("op")
IsOperation(entry) == Truthy(Get(entry, "op"))

\* a head that keeps the comment of the delta before, which line 267 does not
BeginApplyDeltaKeepingComment(self, delta) ==
    LET meta == GetOr(delta, "meta", <<>>) IN
    [self EXCEPT
        !.current_variables =
            [v \in DOMAIN self.current_variables |->
                IF v \in DOMAIN meta THEN meta[v] ELSE self.current_variables[v]],
        !.temp_elements =
            SelectSeq(self.temp_elements, LAMBDA e : Get(e, "type") = "boundary_box"),
        !.dependencies = <<>>]

\* a head that keeps every annotation, which line 265 does not
BeginApplyDeltaKeepingAnnotations(self, delta) ==
    LET meta == GetOr(delta, "meta", <<>>) IN
    [self EXCEPT
        !.current_variables =
            [v \in DOMAIN self.current_variables |->
                IF v \in DOMAIN meta THEN meta[v] ELSE self.current_variables[v]],
        !.dependencies = <<>>,
        !.current_comment_text = None]

\* lines 261-267: the head of _apply_delta_with_animation
BeginApplyDelta(self, delta) ==
    LET meta == GetOr(delta, "meta", <<>>) IN
    [self EXCEPT
        !.current_variables =
            [v \in DOMAIN self.current_variables |->
                IF v \in DOMAIN meta THEN meta[v] ELSE self.current_variables[v]],
        !.temp_elements =
            SelectSeq(self.temp_elements, LAMBDA e : Get(e, "type") = "boundary_box"),
        !.dependencies = <<>>,
        !.current_comment_text = None]

(***************************************************************************)
(* The trace document and the objects the renderer shares with it.         *)
(* A delta is [meta, operations]; operations is a list of groups; a group  *)
(* is [list |-> entries] (a JSON list) or one entry (a bare operation).    *)
(* A place <<d, g, o>> names entry o of group g of delta d.                *)
(***************************************************************************)
\* a loop that leaves a list group after its first entry, which line 270 does not
GroupEntriesHeadOnly(op_group) ==
    IF Has(op_group, "list") THEN Take(op_group.list, 1) ELSE <<op_group>>

GroupEntries(op_group) ==
    IF Has(op_group, "list") THEN op_group.list ELSE <<op_group>>

EntryAt(doc, at) == GroupEntries(doc.deltas[at[1]].operations[at[2]])[at[3]]

SetEntryAt(doc, at, entry) ==
    LET group == doc.deltas[at[1]].operations[at[2]]
        group1 == IF Has(group, "list")
                  THEN [list |-> [group.list EXCEPT ![at[3]] = entry]]
                  ELSE entry
    IN  [doc EXCEPT !.deltas[at[1]].operations[at[2]] = group1]

\* the parameter of an operation that its handler stores without copying
SharedParam(op_name) ==
    CASE op_name = "addNode" -> "node"
      [] op_name = "addChild" -> "node"
      [] op_name = "addEdge" -> "edge"
      [] op_name = "addAuxView" -> "view"
      [] op_name = "insertIntoBucket" -> "element"

RECURSIVE Flatten(_)
Flatten(ss) == IF ss = <<>> THEN <<>> ELSE Head(ss) \o Flatten(Tail(ss))

\* every object of the renderer state that may be an object of the document
SharedObjects(self) ==
    LET ds == self.current_data_state
        struct == IF Has(ds, "structure") /\ self.data_type \in {"graph", "tree", "hashtable"}
                  THEN ds.structure ELSE <<>>
        buckets == GetOr(struct, "buckets", <<>>)
    IN  GetOr(struct, "nodes", <<>>) \o GetOr(struct, "edges", <<>>)
        \o Flatten([b \in DOMAIN buckets |-> GetOr(buckets[b], "items", <<>>)])
        \o self.current_aux_views

RECURSIVE WriteThrough(_, _)
WriteThrough(doc, objs) ==
    IF objs = <<>> THEN doc
    ELSE LET obj == Head(objs) IN
         IF Has(obj, "_ref")
         THEN LET entry == EntryAt(doc, obj["_ref"])
                  entry1 == Put(entry, "params",
                                Put(entry.params, SharedParam(entry.op), Del(obj, "_ref")))
              IN  WriteThrough(SetEntryAt(doc, obj["_ref"], entry1), Tail(objs))
         ELSE WriteThrough(doc, Tail(objs))

\* the document after the renderer changed the objects it shares with it
SyncDoc(doc, self) == WriteThrough(doc, SharedObjects(self))

(***************************************************************************)
(* __init__ (lines 18-99) and ConfigurableSVLRenderer's style merge.       *)
(***************************************************************************)
\* _merge_config_styles: self.styles is initial_frame["styles"] itself
MergeConfigStyles(styles, config) ==
    LET element_styles ==
            GetOr(GetOr(config, "style_overrides", <<>>), "element_styles", <<>>)
    IN  IF DOMAIN element_styles = {} THEN styles
        ELSE Put(styles, "elementStyles",
                 Merge(GetOr(styles, "elementStyles", <<>>),
                       [k \in DOMAIN element_styles |->
                           [fill |-> GetOr(element_styles[k], "fill", "#f0f0f0"),
                            stroke |-> GetOr(element_styles[k], "stroke", "#666666"),
                            strokeWidth |-> GetOr(element_styles[k], "stroke_width", 2),
                            textColor |-> GetOr(element_styles[k], "text_color", "#000000"),
                            opacity |-> GetOr(element_styles[k], "opacity", 1)]]))

\* lines 36-50: a data_state without type takes the dp_table auxiliary view
AdoptDpTable(cds, views) ==
    LET k == FirstIndex(views, LAMBDA v : Get(v, "type") = "table"
                                          /\ Get(v, "view_id") = "dp_table")
    IN  IF Truthy(Get(cds, "type")) \/ k = 0
        THEN [cds |-> cds, views |-> views]
        ELSE [cds |-> [type |-> "table",
                       view_id |-> GetOr(views[k], "view_id", "main_table"),
                       title |-> Get(views[k], "title"),
                       data |-> GetOr(views[k], "data", <<>>),
                       options |-> GetOr(views[k], "options", <<>>)],
              views |-> SubSeq(views, 1, k - 1) \o SubSeq(views, k + 1, Len(views))]

\* lines 52-61: the dp aliases become "table"
NormalizeType(cds) ==
    LET c1 == IF Get(cds, "type") \in {"dp", "dp_table", "dp_edit_distance"}
              THEN LET c == Put(cds, "type", "table") IN
                   IF ~Has(c, "data") /\ Has(c, "structure")
                   THEN Put(c, "data", c.structure) ELSE c
              ELSE cds
    IN  IF Get(c1, "type") = "table" /\ ~Truthy(Get(c1, "view_id"))
        THEN Put(c1, "view_id", "dp_table") ELSE c1

\* _validate_version: a version other than "5.0" prints a warning; nothing is raised
ValidateVersion(version) == [warning |-> version # "5.0", raised |-> FALSE]

InitRenderer(doc, fast) ==
    LET frame == doc.initial_frame
        adopted == AdoptDpTable(frame.data_state, GetOr(frame, "auxiliary_views", <<>>))
        cds == NormalizeType(adopted.cds)
        schema == GetOr(frame, "variables_schema", <<>>)
    IN  [at |-> <<0, 0, 0>>,
         data_type |-> GetOr(cds, "type", "none"),
         current_data_state |-> cds,
         current_aux_views |-> adopted.views,
         current_variables |-> [n \in {schema[i].name : i \in DOMAIN schema} |-> "-"],
         temp_elements |-> <<>>,
         dependencies |-> <<>>,
         current_comment_text |-> None,
         fast_mode |-> fast]

(***************************************************************************)
(* The traces the model replays.  A trace uses the operations of one       *)
(* family, on an initial frame of that family.                             *)
(***************************************************************************)
Families == {"array", "graph", "table", "tree", "hashtable", "aux", "annot"}

Styles0 == [elementStyles |-> [idle |-> [fill |-> "#ffffff"]]]

Cell(i, v) == [index |-> i, value |-> v, state |-> "idle"]
ArrayState ==
    [type |-> "array",
     structure |-> [i \in 1..ArrLen |-> Cell(i - 1, IF i % 2 = 1 THEN "x" ELSE "y")]]

GraphState ==
    [type |-> "graph",
     structure |-> [nodes |-> <<[id |-> "r", label |-> "R"], [id |-> "c", label |-> "C"]>>,
                    edges |-> <<[from |-> "r", to |-> "c"]>>]]

TreeState ==
    [type |-> "tree",
     structure |-> [root |-> "r",
                    nodes |-> <<[id |-> "r", label |-> "R", children |-> <<"c">>],
                                [id |-> "c", label |-> "C", parent |-> "r",
                                 children |-> <<>>]>>]]

HashState ==
    [type |-> "hashtable",
     structure |-> [size |-> 2,
                    buckets |-> <<[index |-> 0, items |-> <<[key |-> "k", value |-> "1"]>>],
                                  [index |-> 1, items |-> <<>>]>>]]

Grid == <<<<"0", "0">>, <<"0", "0">>>>
AuxTable == [view_id |-> "t", type |-> "table", data |-> Grid]
DpTable == [view_id |-> "dp_table", type |-> "table", title |-> "dp", data |-> Grid]
ListView == [view_id |-> "q", type |-> "list", data |-> <<"x", "y", "x">>]
ListsView == [view_id |-> "m", type |-> "lists", data |-> [open |-> <<"x">>]]

Frame(ds, views) ==
    [data_state |-> ds, auxiliary_views |-> views,
     variables_schema |-> <<[name |-> "i"]>>, styles |-> Styles0]

InitialFrames(f) ==
    CASE f = "array" -> {Frame(ArrayState, <<>>)}
      [] f = "graph" -> {Frame(GraphState, <<>>)}
      [] f = "tree" -> {Frame(TreeState, <<>>)}
      [] f = "hashtable" -> {Frame(HashState, <<>>)}
      [] f = "table" ->
            {Frame([type |-> "table", view_id |-> "main_table", data |-> Grid], <<AuxTable>>),
             Frame([type |-> "dp", structure |-> Grid], <<AuxTable>>),
             Frame([title |-> "untyped"], <<AuxTable, DpTable>>)}
      [] f = "aux" -> {Frame(ArrayState, <<ListView, ListsView>>)}
      [] f = "annot" -> {Frame(ArrayState, <<>>)}

\* SVL_FAST_MODE, read by __init__; only array operations read it
FastModes(f) == IF f = "array" THEN BOOLEAN ELSE {FALSE}

\* render_config of ConfigurableSVLRenderer; <<>> is none
Configs(f) ==
    IF f = "annot"
    THEN {<<>>, [style_overrides |-> [element_styles |-> [current |-> [fill |-> "#ff0000"]]]]}
    ELSE {<<>>}

Doc(frame) == [svl_version |-> "5.0", initial_frame |-> frame, deltas |-> <<>>]

(***************************************************************************)
(* The parameters the operations of a trace are drawn from.  "zz" names    *)
(* nothing; "n", "z" and "j" name what a trace may add.                    *)
(***************************************************************************)
P(i, j) == [fromIndex |-> i, toIndex |-> j]
U(i, v) == [index |-> i, value |-> v]
AllIndices == [i \in 1..ArrLen |-> i - 1]

NewNode == [id |-> "n", label |-> "N"]

NewElement == [key |-> "j", value |-> "2"]
NoBucket == Len(HashState.structure.buckets)

NoRow == Len(Grid)

NewView == [view_id |-> "z", type |-> "list", data |-> <<>>]


NoEffectNames == {"showHash", "highlightCollision", "highlightBucket", "highlightPath"}

\* the params of the operations of one name
Params(op_name) ==
    CASE op_name = "updateStyle" ->
            {[styleKey |-> k, indices |-> l] :
                k \in {"current", "compare"},
                l \in {<<0>>, <<0, 1>>, AllIndices, <<ArrLen>>, <<0, ArrLen>>}}
      [] op_name = "moveElements" ->
            {[pairs |-> <<P(0, 1)>>], [pairs |-> <<P(1, 0)>>], [pairs |-> <<P(0, ArrLen - 1)>>],
             [pairs |-> <<P(0, 0)>>], [pairs |-> <<P(0, ArrLen)>>],
             [pairs |-> <<P(0, 1), P(1, 0)>>], [pairs |-> <<P(0, 1), P(1, 2)>>],
             [pairs |-> <<P(0, 1)>>, animationKey |-> "swap"],
             [pairs |-> <<P(0, 1), P(1, 2)>>, animationKey |-> "swap", styleKey |-> "hot"]}
      [] op_name = "shiftElements" ->
            {[shifts |-> <<P(0, 1)>>], [shifts |-> <<P(1, ArrLen)>>]}
      [] op_name = "updateValues" ->
            {[updates |-> <<U(0, "y")>>], [updates |-> <<U(0, "x")>>],
             [updates |-> <<U(ArrLen, "y")>>],
             [updates |-> <<U(0, "y"), U(1, "x")>>],
             [updates |-> <<U(ArrLen, "x"), U(ArrLen + 1, "y")>>]}
      [] op_name = "addNode" ->
            {[node |-> NewNode], [node |-> [id |-> "r", label |-> "dup"]],
             [node |-> [label |-> "noid"]], <<>>}
      [] op_name = "removeNode" ->
            {[id |-> "r"], [id |-> "zz"]}
      [] op_name = "addEdge" ->
            {[edge |-> [from |-> "c", to |-> "r"]], [edge |-> [from |-> "r", to |-> "zz"]]}
      [] op_name = "removeEdge" ->
            {[from |-> "r", to |-> "c"], [from |-> "c", to |-> "r"], [from |-> "zz", to |-> "c"]}
      [] op_name = "updateNodeStyle" ->
            {[ids |-> <<i>>, styleKey |-> "visited"] : i \in {"r", "n", "zz"}}
      [] op_name = "updateNodeProperties" ->
            {[updates |-> <<[id |-> i, properties |-> [dist |-> "1"]]>>] : i \in {"r", "n", "zz"}}
      [] op_name = "updateEdgeStyle" ->
            {[edges |-> <<e>>, styleKey |-> "hot"] :
                e \in {[from |-> "r", to |-> "c"], [from |-> "c", to |-> "r"],
                       [from |-> "zz", to |-> "c"]}}
      [] op_name = "addChild" ->
            {[parent_id |-> p, node |-> nd] :
                p \in {"r", "c", "zz"}, nd \in {NewNode, Put(NewNode, "parent", "r")}}
            \cup {[node |-> NewNode],
                  [parent_id |-> "r", node |-> NewNode, index |-> 0],
                  [parent_id |-> "r", node |-> [id |-> "c", label |-> "dup"]],
                  [parent_id |-> "r"]}
      [] op_name = "removeChild" ->
            {[parent_id |-> "r", child_id |-> "c"], [parent_id |-> "r", child_id |-> "n"],
             [parent_id |-> "r", child_id |-> "zz"], [parent_id |-> "zz", child_id |-> "c"]}
      [] op_name = "reparent" ->
            {[node_id |-> x] : x \in {"c", "n", "zz"}}
            \cup {[node_id |-> x, new_parent_id |-> y] : x \in {"c", "n"}, y \in {"r", "c", "zz"}}
            \cup {[node_id |-> "c", new_parent_id |-> "r", index |-> 0]}
      [] op_name = "swapNodes" ->
            {[a_id |-> "r", b_id |-> "c"], [a_id |-> "r", b_id |-> "c", swap_children |-> TRUE],
             [a_id |-> "r", b_id |-> "r"], [a_id |-> "r", b_id |-> "zz"]}
      [] op_name = "insertIntoBucket" ->
            {[bucket_index |-> b, element |-> NewElement] : b \in {0, 1, NoBucket, -1}}
            \cup {[bucket_index |-> 0, element |-> [key |-> "k", value |-> "9"]]}
      [] op_name = "updateInBucket" ->
            {[bucket_index |-> 0, key |-> k, value |-> "7"] : k \in {"k", "j", "zz"}}
            \cup {[bucket_index |-> NoBucket, key |-> "k", value |-> "7"]}
      [] op_name = "removeFromBucket" ->
            {[bucket_index |-> 0, key |-> k] : k \in {"k", "j", "zz"}}
            \cup {[bucket_index |-> NoBucket, key |-> "k"]}
      [] op_name = "updateTableCell" ->
            {[view_id |-> v, updates |-> <<[row |-> r, col |-> 1, value |-> "5"]>>] :
                v \in {"dp_table", "main_table", "t", "zz"}, r \in {0, NoRow}}
            \cup {[updates |-> <<[row |-> 0, col |-> 1, value |-> "5"]>>]}
      [] op_name = "highlightTableCell" ->
            {[view_id |-> "dp_table", cells |-> <<[row |-> r, col |-> 0]>>] : r \in {0, NoRow}}
      [] op_name = "showDependency" ->
            {[from_cells |-> <<[row |-> 0, col |-> 0]>>, to_cell |-> [row |-> r, col |-> 1]] :
                r \in {0, NoRow}}
      [] op_name = "addAuxView" ->
            {[view |-> NewView], [view |-> [view_id |-> "q", type |-> "list", data |-> <<"y">>]],
             <<>>}
      [] op_name = "removeAuxView" ->
            {[view_id |-> "q"], [view_id |-> "zz"]}
      [] op_name = "appendToList" ->
            {[view_id |-> v, value |-> "x"] : v \in {"q", "z", "m"}}
            \cup {[view_id |-> "m", list_key |-> k, value |-> "y"] : k \in {"open", "closed"}}
      [] op_name = "popFromList" ->
            {Put(m, "view_id", "q") :
                m \in {[value |-> "x"], [value |-> "w"], [value |-> "x", index |-> 1],
                       [value |-> "w", from |-> "head"], [index |-> 0], [index |-> 9],
                       [from |-> "head"], [from |-> "tail"], <<>>}}
            \cup {[view_id |-> "zz", value |-> "x"], [view_id |-> "z", value |-> "x"],
                  [view_id |-> "m", value |-> "x"],
                  [view_id |-> "m", list_key |-> "open", value |-> "x"]}
      [] op_name = "clearList" ->
            {[view_id |-> v] : v \in {"q", "m", "z", "zz"}}
      [] op_name = "showComment" ->
            {[text |-> "hi"], [text |-> "yo"], [text |-> ""], <<>>}
      [] op_name = "updateBoundary" ->
            {[type |-> "window", range |-> <<0, 1>>], [type |-> "window", range |-> <<1, 2>>],
             [type |-> "pivot", range |-> <<0, 0>>]}
      [] op_name = "removeBoundary" ->
            {[type |-> "window"], [type |-> "zz"]}
      [] op_name \in NoEffectNames -> {[bucket_index |-> 0]}

Entry(op_name, params) == [op |-> op_name, params |-> params]

\* an operation of the family named, put into a trace of another family
Probes ==
    {[family |-> "array", entry |-> Entry("updateValues", [updates |-> <<U(0, "y")>>])],
     [family |-> "graph", entry |-> Entry("addNode", [node |-> NewNode])],
     [family |-> "tree", entry |-> Entry("addChild", [parent_id |-> "r", node |-> NewNode])],
     [family |-> "hashtable",
      entry |-> Entry("insertIntoBucket", [bucket_index |-> 0, element |-> NewElement])],
     [family |-> "table",
      entry |-> Entry("updateTableCell",
                      [updates |-> <<[row |-> 0, col |-> 1, value |-> "5"]>>])]}

\* delta.meta; <<>> is a delta without meta
Metas(f) == IF f = "annot" THEN {<<>>, [i |-> "1", zz |-> "9"]}
            ELSE {[i |-> "1", zz |-> "9"]}

(***************************************************************************)
(* Spec: one renderer replays a trace that is revealed entry by entry.     *)
(* Each delta of the trace has one group, a list of entries.               *)
(***************************************************************************)
\* the renderer runs outside a batch and calls no API
IdleBatch ==
    /\ batch_pc = "idle"
    /\ batch_args = <<>>
    /\ trace_files = <<>>
    /\ tasks = <<>>
    /\ results = <<>>
    /\ written = {}
IdleApi ==
    /\ api_pc = "idle"
    /\ api_args = <<>>
    /\ attempt = 0
    /\ outcomes = <<>>
    /\ slept = <<>>
NoApi == UNCHANGED <<api_pc, api_args, attempt, outcomes, slept>>
\* no tracker is being generated
IdleGen == gen = <<>>
NoGen == UNCHANGED gen
NoBatch ==
    /\ UNCHANGED <<batch_pc, batch_args, trace_files, tasks, results, written>>
    /\ NoApi
    /\ NoGen

NoReplay == UNCHANGED <<replay, pos, applied, final1>>

Commit(self) ==
    /\ data_type' = self.data_type
    /\ current_data_state' = self.current_data_state
    /\ current_aux_views' = self.current_aux_views
    /\ current_variables' = self.current_variables
    /\ temp_elements' = self.temp_elements
    /\ dependencies' = self.dependencies
    /\ current_comment_text' = self.current_comment_text
    /\ fast_mode' = self.fast_mode

Init ==
    /\ family \in Families
    /\ \E frame \in InitialFrames(family) : svl_data = Doc(frame)
    /\ file_data = svl_data
    /\ pc = "new"
    /\ render_config = <<>>
    /\ data_type = "none"
    /\ current_data_state = <<>>
    /\ current_aux_views = <<>>
    /\ current_variables = <<>>
    /\ temp_elements = <<>>
    /\ dependencies = <<>>
    /\ current_comment_text = None
    /\ fast_mode = FALSE
    /\ replay = 0
    /\ pos = <<0, 0, 0>>
    /\ applied = <<>>
    /\ final1 = <<>>
    /\ IdleBatch
    /\ IdleApi
    /\ IdleGen

\* SVLManimRenderer(svl_data), or ConfigurableSVLRenderer(svl_data, render_config)
Construct ==
    /\ pc = "new"
    /\ ~ValidateVersion(Get(svl_data, "svl_version")).raised
    /\ \E fast \in FastModes(family), config \in Configs(family) :
          /\ Commit(InitRenderer(svl_data, fast))
          /\ render_config' = config
          /\ svl_data' = [svl_data EXCEPT !.initial_frame.styles =
                              MergeConfigStyles(@, config)]
    /\ pc' = "replay"
    /\ UNCHANGED <<file_data, family>>
    /\ NoReplay
    /\ NoBatch

\* the entries of a document, in the order of the document
TraceEntries(doc) ==
    Flatten([d \in DOMAIN doc.deltas |->
                Flatten([g \in DOMAIN GetOr(doc.deltas[d], "operations", <<>>) |->
                            LET group == doc.deltas[d].operations[g] IN
                            IF Has(group, "list") THEN group.list ELSE <<group>>])])

NewDelta(meta) ==
    IF meta = <<>> THEN [operations |-> <<[list |-> <<>>]>>]
    ELSE [meta |-> meta, operations |-> <<[list |-> <<>>]>>]

\* construct() reaches the next delta: the head of _apply_delta_with_animation
BeginDelta ==
    /\ pc = "replay"
    /\ Len(file_data.deltas) < MaxDeltas
    /\ \E meta \in Metas(family) :
          /\ svl_data' = [svl_data EXCEPT !.deltas = Append(@, NewDelta(meta))]
          /\ file_data' = [file_data EXCEPT !.deltas = Append(@, NewDelta(meta))]
          /\ Commit(BeginApplyDelta(Self, NewDelta(meta)))
    /\ UNCHANGED <<family, pc, render_config>>
    /\ NoReplay
    /\ NoBatch

AppendEntry(doc, entry) ==
    [doc EXCEPT !.deltas[Len(doc.deltas)].operations[1] =
         [list |-> Append(@.list, entry)]]

LastPlace(doc) ==
    <<Len(doc.deltas), 1, Len(doc.deltas[Len(doc.deltas)].operations[1].list)>>

\* the renderer after one pass of the inner loop of line 270 on the entry at a place
Dispatch(self, entry) ==
    IF IsOperation(entry) THEN ProcessOperationWithAnimation(self, entry) ELSE self

ApplyEntry(self, doc, at) == Dispatch([self EXCEPT !.at = at], EntryAt(doc, at))

\* the document and the renderer after the entry was handled
Handled(doc, self) ==
    /\ svl_data' = SyncDoc(doc, self)
    /\ Commit(self)

\* the loop of _apply_delta_with_animation reaches the next entry of the delta
Reach(doc) == Handled(doc, ApplyEntry(Self, doc, LastPlace(doc)))

Step(entry) ==
    /\ pc = "replay"
    /\ Len(file_data.deltas) >= 1
    /\ Len(TraceEntries(file_data)) < MaxOps
    /\ Reach(AppendEntry(svl_data, entry))
    /\ file_data' = AppendEntry(file_data, entry)
    /\ UNCHANGED <<family, pc, render_config>>
    /\ NoReplay
    /\ NoBatch

UpdateStyle ==
    \E p \in Params("updateStyle") : family = "array" /\ Step(Entry("updateStyle", p))
MoveElements ==
    \E p \in Params("moveElements") : family = "array" /\ Step(Entry("moveElements", p))
ShiftElements ==
    \E p \in Params("shiftElements") : family = "array" /\ Step(Entry("shiftElements", p))
UpdateValues ==
    \E p \in Params("updateValues") : family = "array" /\ Step(Entry("updateValues", p))
UpdateNodeStyle ==
    \E p \in Params("updateNodeStyle") :
        family \in {"graph", "tree"} /\ Step(Entry("updateNodeStyle", p))
UpdateNodeProperties ==
    \E p \in Params("updateNodeProperties") :
        family \in {"graph", "tree"} /\ Step(Entry("updateNodeProperties", p))
UpdateEdgeStyle ==
    \E p \in Params("updateEdgeStyle") :
        family \in {"graph", "tree"} /\ Step(Entry("updateEdgeStyle", p))
UpdateTableCell ==
    \E p \in Params("updateTableCell") : family = "table" /\ Step(Entry("updateTableCell", p))
HighlightTableCell ==
    \E p \in Params("highlightTableCell") :
        family \in {"table", "annot"} /\ Step(Entry("highlightTableCell", p))
ShowDependency ==
    \E p \in Params("showDependency") :
        family \in {"table", "annot"} /\ Step(Entry("showDependency", p))
UpdateBoundary ==
    \E p \in Params("updateBoundary") : family = "annot" /\ Step(Entry("updateBoundary", p))
RemoveBoundary ==
    \E p \in Params("removeBoundary") : family = "annot" /\ Step(Entry("removeBoundary", p))
ShowComment ==
    \E p \in Params("showComment") : family = "annot" /\ Step(Entry("showComment", p))
AddNode ==
    \E p \in Params("addNode") : family = "graph" /\ Step(Entry("addNode", p))
RemoveNode ==
    \E p \in Params("removeNode") : family = "graph" /\ Step(Entry("removeNode", p))
AddEdge ==
    \E p \in Params("addEdge") : family = "graph" /\ Step(Entry("addEdge", p))
RemoveEdge ==
    \E p \in Params("removeEdge") : family = "graph" /\ Step(Entry("removeEdge", p))
AddAuxView ==
    \E p \in Params("addAuxView") : family = "aux" /\ Step(Entry("addAuxView", p))
RemoveAuxView ==
    \E p \in Params("removeAuxView") : family = "aux" /\ Step(Entry("removeAuxView", p))
AppendToList ==
    \E p \in Params("appendToList") : family = "aux" /\ Step(Entry("appendToList", p))
PopFromList ==
    \E p \in Params("popFromList") : family = "aux" /\ Step(Entry("popFromList", p))
ClearList ==
    \E p \in Params("clearList") : family = "aux" /\ Step(Entry("clearList", p))
InsertIntoBucket ==
    \E p \in Params("insertIntoBucket") :
        family = "hashtable" /\ Step(Entry("insertIntoBucket", p))
UpdateInBucket ==
    \E p \in Params("updateInBucket") :
        family = "hashtable" /\ Step(Entry("updateInBucket", p))
RemoveFromBucket ==
    \E p \in Params("removeFromBucket") :
        family = "hashtable" /\ Step(Entry("removeFromBucket", p))
AddChild ==
    \E p \in Params("addChild") : family = "tree" /\ Step(Entry("addChild", p))
RemoveChild ==
    \E p \in Params("removeChild") : family = "tree" /\ Step(Entry("removeChild", p))
Reparent ==
    \E p \in Params("reparent") : family = "tree" /\ Step(Entry("reparent", p))
SwapNodes ==
    \E p \in Params("swapNodes") : family = "tree" /\ Step(Entry("swapNodes", p))
\* showHash, highlightCollision, highlightBucket, highlightPath: animation only
NoEffectOp ==
    \E name \in NoEffectNames, p \in Params("showHash") :
        family \in {"hashtable", "tree"} /\ Step(Entry(name, p))
\* a name outside op_map
UnknownOp ==
    \E name \in {"futureOp", "UpdateValues"} :
        Step(Entry(name, [parent_id |-> "r", node |-> NewNode,
                          updates |-> <<U(0, "y")>>]))
\* an entry that line 271 passes over
NotAnOperation ==
    \E entry \in {[params |-> [text |-> "hi"]], [op |-> "", params |-> [text |-> "hi"]]} :
        family = "annot" /\ Step(entry)
\* an operation of another family
ForeignOp ==
    \E probe \in Probes : probe.family # family /\ Step(probe.entry)

Next ==
    \/ Construct
    \/ BeginDelta
    \/ UpdateStyle
    \/ MoveElements
    \/ ShiftElements
    \/ UpdateValues
    \/ UpdateNodeStyle
    \/ UpdateNodeProperties
    \/ UpdateEdgeStyle
    \/ UpdateTableCell
    \/ HighlightTableCell
    \/ ShowDependency
    \/ UpdateBoundary
    \/ RemoveBoundary
    \/ ShowComment
    \/ AddNode
    \/ RemoveNode
    \/ AddEdge
    \/ RemoveEdge
    \/ AddAuxView
    \/ RemoveAuxView
    \/ AppendToList
    \/ PopFromList
    \/ ClearList
    \/ InsertIntoBucket
    \/ UpdateInBucket
    \/ RemoveFromBucket
    \/ AddChild
    \/ RemoveChild
    \/ Reparent
    \/ SwapNodes
    \/ NoEffectOp
    \/ UnknownOp
    \/ NotAnOperation
    \/ ForeignOp

Spec == Init /\ [][Next]_vars

(***************************************************************************)
(* SpecReplay: a whole trace document is replayed twice, by two renderers  *)
(* constructed one after the other on the same document, with the loops of *)
(* construct() and _apply_delta_with_animation() made explicit.            *)
(***************************************************************************)
ReplayEntries ==
    {Entry("addAuxView", [view |-> NewView]),
     Entry("appendToList", [view_id |-> "z", value |-> "x"]),
     Entry("popFromList", [view_id |-> "q", value |-> "x"]),
     Entry("showComment", [text |-> "hi"]),
     Entry("futureOp", [view_id |-> "q"]),
     [params |-> [view_id |-> "q", value |-> "x"]]}

\* the groups of a delta: one JSON list, bare operations, or two lists
Grouped(shape, entries) ==
    CASE shape = "list" -> <<[list |-> entries]>>
      [] shape = "bare" -> entries
      [] shape = "split" -> <<[list |-> <<Head(entries)>>], [list |-> Tail(entries)]>>

TailDeltas ==
    {[meta |-> [i |-> "1"]],
     [meta |-> [i |-> "2"],
      operations |-> <<Entry("appendToList", [view_id |-> "z", value |-> "y"])>>],
     [operations |-> <<[list |-> <<Entry("showComment", [text |-> "yo"])>>]>>]}

\* the trace with the svl_version given; None is a trace without the key
Versioned(doc, version) ==
    IF version = None THEN Del(doc, "svl_version") ELSE Put(doc, "svl_version", version)

ReplayDocs ==
    {Versioned([Doc(Frame(ArrayState, <<ListView>>)) EXCEPT
                   !.deltas = <<[meta |-> [i |-> "0"],
                                 operations |-> Grouped(shape, entries)]>> \o tail],
               version) :
        shape \in {"list", "bare", "split"},
        entries \in [1..MaxOps -> ReplayEntries],
        tail \in [1..(MaxDeltas - 1) -> TailDeltas],
        version \in {"5.0", "4.0", None}}

\* a render that keeps the document of the render before it, which json.load
\* of render_svl_to_video does not
ReuseTrace(file, document) == document

\* render_svl_to_video, lines 2448-2449: every render reads the trace file again
LoadTrace(file, document) == file

NoPlace == <<0, 0, 0>>

\* the places of a delta in the order of the two loops of lines 269-270
DeltaPlaces(doc, d) ==
    LET operations == GetOr(doc.deltas[d], "operations", <<>>) IN
    Flatten([g \in DOMAIN operations |->
                [o \in DOMAIN GroupEntries(operations[g]) |-> <<d, g, o>>]])

PlaceAfter(doc, p) ==
    LET places == DeltaPlaces(doc, p[1])
        k == IF p[2] = 0 THEN 0 ELSE CHOOSE i \in DOMAIN places : places[i] = p
    IN  IF k < Len(places) THEN places[k + 1] ELSE NoPlace

InitReplay ==
    /\ family = "aux"
    /\ svl_data \in ReplayDocs
    /\ file_data = svl_data
    /\ pc = "new"
    /\ render_config = <<>>
    /\ data_type = "none"
    /\ current_data_state = <<>>
    /\ current_aux_views = <<>>
    /\ current_variables = <<>>
    /\ temp_elements = <<>>
    /\ dependencies = <<>>
    /\ current_comment_text = None
    /\ fast_mode = FALSE
    /\ replay = 0
    /\ pos = NoPlace
    /\ applied = <<>>
    /\ final1 = <<>>
    /\ IdleBatch
    /\ IdleApi
    /\ IdleGen

\* SVLManimRenderer(svl_data) on the document, the first time or again
StartReplay ==
    /\ NoBatch
    /\ pc = "new" \/ (pc = "done" /\ replay = 1)
    /\ ~ValidateVersion(Get(LoadTrace(file_data, svl_data), "svl_version")).raised
    /\ svl_data' = LoadTrace(file_data, svl_data)
    /\ Commit(InitRenderer(LoadTrace(file_data, svl_data), FALSE))
    /\ replay' = replay + 1
    /\ pos' = NoPlace
    /\ applied' = <<>>
    /\ pc' = "deltas"
    /\ UNCHANGED <<file_data, family, render_config, final1>>

\* construct(): the next delta of the list, and the head of its application
EnterDelta ==
    /\ NoBatch
    /\ pc = "deltas"
    /\ pos[1] < Len(svl_data.deltas)
    /\ Commit(BeginApplyDelta(Self, svl_data.deltas[pos[1] + 1]))
    /\ pos' = <<pos[1] + 1, 0, 0>>
    /\ pc' = "ops"
    /\ UNCHANGED <<svl_data, file_data, family, render_config, replay, applied, final1>>

\* line 271 holds: the entry goes to _process_operation_with_animation
ReplayOperation ==
    /\ NoBatch
    /\ pc = "ops"
    /\ PlaceAfter(svl_data, pos) # NoPlace
    /\ IsOperation(EntryAt(svl_data, PlaceAfter(svl_data, pos)))
    /\ Handled(svl_data, ApplyEntry(Self, svl_data, PlaceAfter(svl_data, pos)))
    /\ pos' = PlaceAfter(svl_data, pos)
    /\ applied' = Append(applied, PlaceAfter(svl_data, pos))
    /\ UNCHANGED <<file_data, family, pc, render_config, replay, final1>>

\* line 271 fails: the entry is passed over
SkipEntry ==
    /\ NoBatch
    /\ pc = "ops"
    /\ PlaceAfter(svl_data, pos) # NoPlace
    /\ ~IsOperation(EntryAt(svl_data, PlaceAfter(svl_data, pos)))
    /\ pos' = PlaceAfter(svl_data, pos)
    /\ UNCHANGED <<svl_data, file_data, family, pc, render_config, data_type,
                   current_data_state, current_aux_views, current_variables,
                   temp_elements, dependencies, current_comment_text, fast_mode,
                   replay, applied, final1>>

\* the loops of the delta end; construct() renders the frame
LeaveDelta ==
    /\ NoBatch
    /\ pc = "ops"
    /\ PlaceAfter(svl_data, pos) = NoPlace
    /\ pc' = "deltas"
    /\ UNCHANGED <<svl_data, file_data, family, render_config, data_type,
                   current_data_state, current_aux_views, current_variables,
                   temp_elements, dependencies, current_comment_text, fast_mode,
                   replay, pos, applied, final1>>

\* construct() returns
FinishReplay ==
    /\ NoBatch
    /\ pc = "deltas"
    /\ pos[1] = Len(svl_data.deltas)
    /\ pc' = "done"
    /\ final1' = IF replay = 1 THEN Observable(Self) ELSE final1
    /\ UNCHANGED <<svl_data, file_data, family, render_config, data_type,
                   current_data_state, current_aux_views, current_variables,
                   temp_elements, dependencies, current_comment_text, fast_mode,
                   replay, pos, applied>>

NextReplay ==
    \/ StartReplay
    \/ EnterDelta
    \/ ReplayOperation
    \/ SkipEntry
    \/ LeaveDelta
    \/ FinishReplay

SpecReplay == InitReplay /\ [][NextReplay]_vars

(***************************************************************************)
(* SpecSieve: the trace that outputs/CASE/array_leetcode_204_seed_01/      *)
(* tracker.py writes for an input n, replayed by the renderer.             *)
(***************************************************************************)
\* int(n ** 0.5)
SieveLimit(n) == CHOOSE k \in 0..n : k * k <= n /\ (k + 1) * (k + 1) > n

VarsPanel ==
    [view_id |-> "vars_panel", type |-> "table", title |-> "Variables",
     data |-> <<<<"i", "None">>, <<"j", "None">>, <<"count", "None">>>>]

CellUpdate(row, value) ==
    Entry("updateTableCell",
          [view_id |-> "vars_panel",
           updates |-> <<[row |-> row, col |-> 1, value |-> ToString(value)]>>])

StyleUpdate(indices, style_key) ==
    Entry("updateStyle", [indices |-> indices, styleKey |-> style_key])

SieveDelta(line, entries) == [code_highlight |-> line, operations |-> <<[list |-> entries]>>]

\* lines 170-185: the multiples of i from i*i on, a delta for each one still marked prime
RECURSIVE SieveMark(_, _, _, _)
SieveMark(n, i, j, st) ==
    IF j >= n THEN st
    ELSE IF st.is_prime[j + 1]
    THEN SieveMark(n, i, j + i,
                   [is_prime |-> [st.is_prime EXCEPT ![j + 1] = FALSE],
                    prime_count |-> st.prime_count,
                    deltas |-> Append(st.deltas,
                        SieveDelta(7, <<CellUpdate(1, j),
                                        Entry("updateValues",
                                              [updates |-> <<U(j, "F")>>]),
                                        StyleUpdate(<<j>>, "marking")>>))])
    ELSE SieveMark(n, i, j + i, st)

\* lines 142-194: the main loop
RECURSIVE SieveLoop(_, _, _)
SieveLoop(n, i, st) ==
    IF i > SieveLimit(n) THEN st
    ELSE LET current == Append(st.deltas,
                               SieveDelta(5, <<StyleUpdate(<<i>>, "current"),
                                               CellUpdate(0, i)>>))
             st2 == IF st.is_prime[i + 1]
                    THEN SieveMark(n, i, i * i,
                             [is_prime |-> st.is_prime,
                              prime_count |-> st.prime_count + 1,
                              deltas |-> Append(current,
                                  SieveDelta(6, <<StyleUpdate(<<i>>, "prime"),
                                                  CellUpdate(2, st.prime_count + 1)>>))])
                    ELSE [st EXCEPT !.deltas = current]
             final_style == IF st2.is_prime[i + 1] THEN "prime" ELSE "non_prime"
         IN  SieveLoop(n, i + 1,
                       [st2 EXCEPT !.deltas =
                            Append(@, SieveDelta(4, <<StyleUpdate(<<i>>, final_style)>>))])

\* main(): the trace document for the input n
SieveTrace(n) ==
    LET frame == [data_state |-> [type |-> "array",
                                  structure |-> [i \in 1..n |-> Cell(i - 1, "T")]],
                  auxiliary_views |-> <<VarsPanel>>,
                  variables_schema |-> <<[name |-> "i"], [name |-> "j"], [name |-> "count"]>>,
                  styles |-> Styles0]
        first == SieveDelta(3, <<Entry("updateValues",
                                       [updates |-> <<U(0, "F"), U(1, "F")>>]),
                                 StyleUpdate(<<0, 1>>, "non_prime")>>)
        st == SieveLoop(n, 2, [is_prime |-> [i \in 1..n |-> i > 2],
                               prime_count |-> 0,
                               deltas |-> <<first>>])
        prime_count == st.prime_count
                       + Cardinality({idx \in Max2(2, SieveLimit(n) + 1)..(n - 1) :
                                         st.is_prime[idx + 1]})
        last == SieveDelta(9, <<CellUpdate(2, prime_count),
                                Entry("showComment",
                                      [text |-> "Found " \o ToString(prime_count)
                                                \o " prime numbers less than "
                                                \o ToString(n),
                                       anchor |-> "global"])>>)
    IN  [Doc(frame) EXCEPT !.deltas =
            IF n <= 2
            THEN <<SieveDelta(2, <<CellUpdate(2, 0),
                                   Entry("showComment",
                                         [text |-> "n=" \o ToString(n) \o " <= 2, return 0",
                                          anchor |-> "global"])>>)>>
            ELSE Append(st.deltas, last)]

InitSieve ==
    /\ family = "array"
    /\ svl_data \in {SieveTrace(n) : n \in 1..MaxSieveN}
    /\ file_data = svl_data
    /\ pc = "new"
    /\ render_config = <<>>
    /\ data_type = "none"
    /\ current_data_state = <<>>
    /\ current_aux_views = <<>>
    /\ current_variables = <<>>
    /\ temp_elements = <<>>
    /\ dependencies = <<>>
    /\ current_comment_text = None
    /\ fast_mode = FALSE
    /\ replay = 0
    /\ pos = NoPlace
    /\ applied = <<>>
    /\ final1 = <<>>
    /\ IdleBatch
    /\ IdleApi
    /\ IdleGen

NextSieve ==
    \/ StartReplay
    \/ EnterDelta
    \/ ReplayOperation
    \/ LeaveDelta
    \/ FinishReplay

SpecSieve == InitSieve /\ [][NextSieve]_vars

(***************************************************************************)
(* Batch rendering: renderer/rsl_style_controller/llm_render.py.  The main *)
(* program collects the traces of a directory and gives each to a pool of  *)
(* worker processes; a worker runs pipeline_with_one_tune on one trace at  *)
(* a time.  No renderer object of this module is involved: the renderer    *)
(* variables stay as they are.                                             *)
(*                                                                         *)
(* A file name is the sequence of its pieces, "tracker__x_trace.json" is   *)
(* <<"tracker__", "x", "_trace", ".json">>, so that str.replace, Path.stem *)
(* and str.endswith are computed on it as Python computes them.            *)
(***************************************************************************)
MaxWorkers == 2

NoRenderer ==
    UNCHANGED <<svl_data, file_data, family, pc, render_config, data_type,
                current_data_state, current_aux_views, current_variables,
                temp_elements, dependencies, current_comment_text, fast_mode,
                replay, pos, applied, final1>>

\* no renderer has been constructed
IdleRenderer ==
    /\ family = "none"
    /\ svl_data = <<>>
    /\ file_data = <<>>
    /\ pc = "new"
    /\ render_config = <<>>
    /\ data_type = "none"
    /\ current_data_state = <<>>
    /\ current_aux_views = <<>>
    /\ current_variables = <<>>
    /\ temp_elements = <<>>
    /\ dependencies = <<>>
    /\ current_comment_text = None
    /\ fast_mode = FALSE
    /\ replay = 0
    /\ pos = NoPlace
    /\ applied = <<>>
    /\ final1 = <<>>

\* the names a batch directory may hold, in the order of Python's string
\* comparison (files.sort() at llm_render.py:244):
\*   notes.json < tracker__x.json_trace.json < tracker__x_trace.json
\*   < tracker__x_tuned_trace.json < tracker__y_trace.json
DirNames ==
    << <<"notes", ".json">>,
       <<"tracker__", "x", ".json", "_trace", ".json">>,
       <<"tracker__", "x", "_trace", ".json">>,
       <<"tracker__", "x", "_tuned", "_trace", ".json">>,
       <<"tracker__", "y", "_trace", ".json">> >>

\* the directories a batch is pointed at
Listings ==
    { {},
      {DirNames[1]},
      {DirNames[1], DirNames[3]},
      {DirNames[2], DirNames[5]},
      {DirNames[3], DirNames[5]},
      {DirNames[1], DirNames[3], DirNames[4]} }

\* the AES scores eval_aes can return: -1.0 on any failure, else the score
Scores == {-1, 1, 2}

\* name.startswith("tracker__") and name.endswith("_trace.json")
IsTraceName(name) ==
    /\ Len(name) >= 2
    /\ name[1] = "tracker__"
    /\ name[Len(name) - 1] = "_trace"
    /\ name[Len(name)] = ".json"

\* _collect_trace_files_in_dir: the matching names of the listing, sorted
CollectTraceFilesInDir(listing) ==
    SelectSeq(DirNames, LAMBDA name : name \in listing /\ IsTraceName(name))

\* str.replace(".json", suffix + ".json"): every occurrence is replaced
RECURSIVE ReplaceJson(_, _)
ReplaceJson(name, suffix) ==
    IF name = <<>> THEN <<>>
    ELSE (IF Head(name) = ".json" THEN <<suffix, ".json">> ELSE <<Head(name)>>)
         \o ReplaceJson(Tail(name), suffix)

\* Path(trace_path).stem: the name without its last suffix
Stem(name) ==
    IF name # <<>> /\ name[Len(name)] \in {".json", ".mp4"}
    THEN SubSeq(name, 1, Len(name) - 1)
    ELSE name

\* lines 89-93: stem[:-6] when the stem ends with "_trace"
BaseName(name) ==
    IF Stem(name) # <<>> /\ Stem(name)[Len(Stem(name))] = "_trace"
    THEN SubSeq(Stem(name), 1, Len(Stem(name)) - 1)
    ELSE Stem(name)

\* a file: the directory it is in (for a media directory, whose) and its name
BatchFile(name) == [dir |-> "batch_dir", worker |-> 0, name |-> name]
VideoFile(name) == [dir |-> "videos_llm", worker |-> 0, name |-> name]

\* _get_video_paths: (video_path, tuned_video_path)
GetVideoPaths(trace) ==
    [video |-> VideoFile(BaseName(trace) \o <<".mp4">>),
     tuned |-> VideoFile(BaseName(trace) \o <<"_tuned", ".mp4">>)]

RslPath(trace) == BatchFile(ReplaceJson(trace, "_rsl"))
CfgPath(trace) == BatchFile(ReplaceJson(trace, "_render_config"))
TunedRslPath(trace) == BatchFile(ReplaceJson(trace, "_rsl_tuned"))
TunedCfgPath(trace) == BatchFile(ReplaceJson(trace, "_render_config_tuned"))

\* init_worker and render_svl_with_config lines 442-448: the movie Manim
\* writes for output_path, in the media directory of the worker's process
MediaFile(worker, output) ==
    [dir |-> ".temp_workers_llm", worker |-> worker, name |-> output.name]

\* render_svl_with_config: Manim writes the movie in the worker's media
\* directory and shutil.move puts it at output_path
RenderWrites(worker, output) == {MediaFile(worker, output), output}

\* the RSL documents llm_generate_rsl may write; times in hundredths of a
\* second, spacings in hundredths of a unit
Rsls ==
    {[timeline |-> [transition |-> 50, pause |-> 30],
      layout |-> [main |-> [type |-> "force_directed",
                            params |-> [node_spacing |-> 350]]]],
     [timeline |-> [transition |-> 195, pause |-> 100],
      layout |-> [main |-> [type |-> "circular", params |-> [node_spacing |-> 990]]]],
     [layout |-> [main |-> [type |-> "linear"]]]}

\* a tuning without the caps
TuneValuesUncapped(rsl) ==
    LET tl == GetOr(rsl, "timeline", <<>>)
        main == GetOr(GetOr(rsl, "layout", <<>>), "main", <<>>)
    IN  Put(Put(rsl, "timeline",
                Put(Put(tl, "transition", GetOr(tl, "transition", 50) + 10),
                    "pause", GetOr(tl, "pause", 30) + 5)),
            "layout", Put(GetOr(rsl, "layout", <<>>), "main",
                          Put(main, "params",
                              Put(GetOr(main, "params", <<>>), "node_spacing",
                                  GetOr(GetOr(main, "params", <<>>), "node_spacing", 350) + 30))))

\* pipeline_with_one_tune lines 151-158: transition + 0.1 up to 2.0, pause
\* + 0.05 up to 1.0 and, for the three graph layouts, node_spacing + 0.3 up
\* to 10.0; setdefault creates what the RSL lacks
TuneValues(rsl) ==
    LET tl == GetOr(rsl, "timeline", <<>>)
        layout == GetOr(rsl, "layout", <<>>)
        main == GetOr(layout, "main", <<>>)
        params == GetOr(main, "params", <<>>)
    IN  Put(Put(rsl, "timeline",
                Put(Put(tl, "transition", Min2(200, GetOr(tl, "transition", 50) + 10)),
                    "pause", Min2(100, GetOr(tl, "pause", 30) + 5))),
            "layout",
            Put(layout, "main",
                Put(main, "params",
                    IF GetOr(main, "type", "") \in {"force_directed", "hierarchical", "circular"}
                    THEN Put(params, "node_spacing",
                             Min2(1000, GetOr(params, "node_spacing", 350) + 30))
                    ELSE params)))

\* the tuned video is returned whatever the scores
KeepTuned(score0, score1, vid0, vid1) == vid1

\* lines 186-192: the tuned video when its score is not lower, else the original
ChooseVideo(score0, score1, vid0, vid1) == IF score1 >= score0 THEN vid1 ELSE vid0

\* the wrapper a worker runs for one trace, lines 214-231: whatever the
\* pipeline raised becomes a failed record; nothing propagates to the pool
ProcessSingleTraceUnguarded(trace_path, raised, value) ==
    IF raised
    THEN [propagates |-> TRUE, res |-> <<>>]
    ELSE [propagates |-> FALSE,
          res |-> [trace |-> trace_path, video |-> value, ok |-> TRUE, error |-> ""]]

ProcessSingleTraceForPool(trace_path, raised, value) ==
    IF raised
    THEN [propagates |-> FALSE,
          res |-> [trace |-> trace_path, video |-> "", ok |-> FALSE, error |-> value]]
    ELSE [propagates |-> FALSE,
          res |-> [trace |-> trace_path, video |-> value, ok |-> TRUE, error |-> ""]]

\* what ex.submit queues for one trace (lines 309-312)
Submitted(trace_path) ==
    [trace |-> trace_path, pc |-> "queued", worker |-> 0, rsl |-> <<>>, renders |-> 0,
     score0 |-> 0, score1 |-> 0, raised |-> FALSE, future |-> <<>>]

\* max_workers = max(1, int(args.max_workers)), line 291
PoolSize(args) == IF args.max_workers > 1 THEN args.max_workers ELSE 1

\* the positions of a pipeline inside pipeline_with_one_tune
Running ==
    {"generate_rsl", "validate", "render", "eval", "tune", "render_tuned",
     "eval_tuned"}

\* the pipeline of task i goes on to position next
Goto(i, next) == [tasks EXCEPT ![i].pc = next]

\* the pipeline of task i returns value, or raises it: the wrapper's return
\* value (or the exception it let through) completes the task's future, and
\* the local rsl of the pipeline is gone
Complete(i, is_raise, value) ==
    [tasks EXCEPT ![i].pc = "done",
                  ![i].rsl = <<>>,
                  ![i].raised = is_raise,
                  ![i].future = ProcessSingleTraceForPool(tasks[i].trace, is_raise, value)]

Wrote(i, files) == written \cup {[file |-> f, trace |-> tasks[i].trace] : f \in files}

InitBatch ==
    /\ IdleRenderer
    /\ IdleApi
    /\ IdleGen
    /\ batch_pc = "start"
    /\ batch_args \in [listing : Listings, tune_once : BOOLEAN,
                       max_workers : 0..MaxWorkers]
    /\ trace_files = <<>>
    /\ tasks = <<>>
    /\ results = <<>>
    /\ written = {}

\* lines 282-312: collect, leave with status 1 when nothing matches, else
\* submit every trace to the pool
CollectTraceFiles ==
    /\ batch_pc = "start"
    /\ trace_files' = CollectTraceFilesInDir(batch_args.listing)
    /\ IF trace_files' = <<>>
       THEN /\ batch_pc' = "exit_1"
            /\ tasks' = tasks
       ELSE /\ batch_pc' = "pool"
            /\ tasks' = [i \in DOMAIN trace_files' |-> Submitted(trace_files'[i])]
    /\ UNCHANGED <<batch_args, results, written>>
    /\ NoApi
    /\ NoRenderer
    /\ NoGen

\* an idle worker process takes the next call of the queue
StartTask ==
    /\ batch_pc = "pool"
    /\ \E i \in DOMAIN tasks, w \in 1..PoolSize(batch_args) :
          /\ tasks[i].pc = "queued"
          /\ \A j \in 1..(i - 1) : tasks[j].pc # "queued"
          /\ \A j \in DOMAIN tasks : tasks[j].pc \in Running => tasks[j].worker # w
          /\ tasks' = [tasks EXCEPT ![i].pc = "generate_rsl", ![i].worker = w]
    /\ UNCHANGED <<batch_pc, batch_args, trace_files, results, written>>
    /\ NoApi
    /\ NoRenderer
    /\ NoGen

\* pipeline_once lines 107-112 with force_regen: llm_generate_rsl writes
\* rsl_path, or the LLM call raises
GenerateRsl ==
    /\ batch_pc = "pool"
    /\ \E i \in DOMAIN tasks, ok \in BOOLEAN, rsl \in Rsls :
          /\ tasks[i].pc = "generate_rsl"
          /\ IF ok
             THEN /\ written' = Wrote(i, {RslPath(tasks[i].trace)})
                  /\ tasks' = [tasks EXCEPT ![i].pc = "validate", ![i].rsl = rsl]
             ELSE /\ written' = written
                  /\ tasks' = Complete(i, TRUE, "llm error")
    /\ UNCHANGED <<batch_pc, batch_args, trace_files, results>>
    /\ NoApi
    /\ NoRenderer
    /\ NoGen

\* pipeline_once lines 115-126: an invalid render config raises, a valid one
\* is written to cfg_path
ValidateConfig ==
    /\ batch_pc = "pool"
    /\ \E i \in DOMAIN tasks, ok \in BOOLEAN :
          /\ tasks[i].pc = "validate"
          /\ IF ok
             THEN /\ written' = Wrote(i, {CfgPath(tasks[i].trace)})
                  /\ tasks' = Goto(i, "render")
             ELSE /\ written' = written
                  /\ tasks' = Complete(i, TRUE, "render_config validation failed")
    /\ UNCHANGED <<batch_pc, batch_args, trace_files, results>>
    /\ NoApi
    /\ NoRenderer
    /\ NoGen

\* pipeline_once lines 128-135 and pipeline_with_one_tune lines 139-145:
\* the first render; Manim raises, or its movie is moved to video_path, or
\* no movie is found (a warning only).  Without --tune-once vid0 is returned
Render ==
    /\ batch_pc = "pool"
    /\ \E i \in DOMAIN tasks, outcome \in {"moved", "missing", "raised"} :
          /\ tasks[i].pc = "render"
          /\ written' = IF outcome = "moved"
                        THEN Wrote(i, RenderWrites(tasks[i].worker,
                                                   GetVideoPaths(tasks[i].trace).video))
                        ELSE written
          /\ tasks' = [IF outcome = "raised"
                       THEN Complete(i, TRUE, "render error")
                       ELSE IF batch_args.tune_once
                       THEN Goto(i, "eval")
                       ELSE [Complete(i, FALSE, GetVideoPaths(tasks[i].trace).video)
                                 EXCEPT ![i].score0 = -1]
                          EXCEPT ![i].renders = @ + 1]
    /\ UNCHANGED <<batch_pc, batch_args, trace_files, results>>
    /\ NoApi
    /\ NoRenderer
    /\ NoGen

\* lines 140-145: score0 = eval_aes(vid0); a negative score returns vid0
Evaluate ==
    /\ batch_pc = "pool"
    /\ \E i \in DOMAIN tasks, score \in Scores :
          /\ tasks[i].pc = "eval"
          /\ tasks' = [IF score < 0
                       THEN Complete(i, FALSE, GetVideoPaths(tasks[i].trace).video)
                       ELSE Goto(i, "tune")
                          EXCEPT ![i].score0 = score]
    /\ UNCHANGED <<batch_pc, batch_args, trace_files, results, written>>
    /\ NoApi
    /\ NoRenderer
    /\ NoGen

\* lines 147-174: the tuned RSL is written; an invalid tuned config returns
\* vid0, a valid one is written
TuneRsl ==
    /\ batch_pc = "pool"
    /\ \E i \in DOMAIN tasks, ok \in BOOLEAN :
          /\ tasks[i].pc = "tune"
          /\ IF ok
             THEN /\ written' = Wrote(i, {TunedRslPath(tasks[i].trace),
                                          TunedCfgPath(tasks[i].trace)})
                  /\ tasks' = [tasks EXCEPT ![i].pc = "render_tuned",
                                             ![i].rsl = TuneValues(@)]
             ELSE /\ written' = Wrote(i, {TunedRslPath(tasks[i].trace)})
                  /\ tasks' = Complete(i, FALSE, GetVideoPaths(tasks[i].trace).video)
    /\ UNCHANGED <<batch_pc, batch_args, trace_files, results>>
    /\ NoApi
    /\ NoRenderer
    /\ NoGen

\* lines 176-184: the second render, to the tuned video path
RenderTuned ==
    /\ batch_pc = "pool"
    /\ \E i \in DOMAIN tasks, outcome \in {"moved", "missing", "raised"} :
          /\ tasks[i].pc = "render_tuned"
          /\ written' = IF outcome = "moved"
                        THEN Wrote(i, RenderWrites(tasks[i].worker,
                                                   GetVideoPaths(tasks[i].trace).tuned))
                        ELSE written
          /\ tasks' = [IF outcome = "raised"
                       THEN Complete(i, TRUE, "render error")
                       ELSE Goto(i, "eval_tuned")
                          EXCEPT ![i].renders = @ + 1]
    /\ UNCHANGED <<batch_pc, batch_args, trace_files, results>>
    /\ NoApi
    /\ NoRenderer
    /\ NoGen

\* lines 186-192: the tuned video is returned when its score is not lower
EvaluateTuned ==
    /\ batch_pc = "pool"
    /\ \E i \in DOMAIN tasks, score1 \in Scores :
          /\ tasks[i].pc = "eval_tuned"
          /\ tasks' = [Complete(i, FALSE,
                                ChooseVideo(tasks[i].score0, score1,
                                            GetVideoPaths(tasks[i].trace).video,
                                            GetVideoPaths(tasks[i].trace).tuned))
                          EXCEPT ![i].score1 = score1]
    /\ UNCHANGED <<batch_pc, batch_args, trace_files, results, written>>
    /\ NoApi
    /\ NoRenderer
    /\ NoGen

\* lines 313-322: as_completed yields a finished future; fut.result() gives
\* the record, or raises what the worker's call raised and ends the program
CollectResult ==
    /\ batch_pc = "pool"
    /\ \E i \in DOMAIN tasks :
          /\ tasks[i].pc = "done"
          /\ tasks' = Goto(i, "collected")
          /\ IF tasks[i].future.propagates
             THEN /\ batch_pc' = "aborted"
                  /\ results' = results
             ELSE /\ batch_pc' = batch_pc
                  /\ results' = Append(results, tasks[i].future.res)
    /\ UNCHANGED <<batch_args, trace_files, written>>
    /\ NoApi
    /\ NoRenderer
    /\ NoGen

\* lines 330-331
OkCnt(res) == Cardinality({k \in DOMAIN res : res[k].ok})
FailCnt(res) == Len(res) - OkCnt(res)

\* lines 324-339: every future was yielded; the summary is printed
Summarize ==
    /\ batch_pc = "pool"
    /\ \A i \in DOMAIN tasks : tasks[i].pc = "collected"
    /\ batch_pc' = "summary"
    /\ UNCHANGED <<batch_args, trace_files, tasks, results, written>>
    /\ NoApi
    /\ NoRenderer
    /\ NoGen

NextBatch ==
    \/ CollectTraceFiles
    \/ StartTask
    \/ GenerateRsl
    \/ ValidateConfig
    \/ Render
    \/ Evaluate
    \/ TuneRsl
    \/ RenderTuned
    \/ EvaluateTuned
    \/ CollectResult
    \/ Summarize

SpecBatch == InitBatch /\ [][NextBatch]_vars

(***************************************************************************)
(* The upstream LLM call: call_api of eval/aes_eval_video.py.  One step per *)
(* attempt, per handling of a failed attempt and per return.  Delays are    *)
(* in milliseconds.                                                        *)
(***************************************************************************)
MaxRetries == 3

\* random.random() * 0.5, in milliseconds: a value of [0, 500)
Jitter == {0, 250, 499}

RECURSIVE Pow2(_)
Pow2(k) == IF k = 0 THEN 1 ELSE 2 * Pow2(k - 1)

\* the delay of a constant wait between attempts
ConstantDelay(failed_attempt, jitter) == 500 + jitter

\* line 171: delay = (2 ** attempt) * 0.5 + random.random() * 0.5
Delay(failed_attempt, jitter) == Pow2(failed_attempt) * 500 + jitter

\* evaluate_aes calls call_api(prompt, video_path) with the default of three
\* attempts and call_api(repair_prompt, None, max_retries=2)
InitApi ==
    /\ IdleRenderer
    /\ IdleBatch
    /\ IdleGen
    /\ api_pc = "call"
    /\ api_args \in [max_retries : 0..MaxRetries, video : BOOLEAN]
    /\ attempt = 0
    /\ outcomes = <<>>
    /\ slept = <<>>

\* lines 131-166: one pass of the loop body; the request succeeds and the
\* response is returned, or anything in the try block raises
ApiAttempt ==
    /\ api_pc = "call"
    /\ attempt < api_args.max_retries
    /\ \E ok \in BOOLEAN :
          /\ outcomes' = Append(outcomes, IF ok THEN "ok" ELSE "error")
          /\ api_pc' = IF ok THEN "returned" ELSE "failed"
    /\ UNCHANGED <<api_args, attempt, slept>>
    /\ UNCHANGED <<batch_pc, batch_args, trace_files, tasks, results, written>>
    /\ NoRenderer
    /\ NoGen

\* lines 168-170: the last attempt failed, the error goes to the caller
ApiRaise ==
    /\ api_pc = "failed"
    /\ attempt = api_args.max_retries - 1
    /\ api_pc' = "raised"
    /\ UNCHANGED <<api_args, attempt, outcomes, slept>>
    /\ UNCHANGED <<batch_pc, batch_args, trace_files, tasks, results, written>>
    /\ NoRenderer
    /\ NoGen

\* lines 171-173: sleep, then the next pass of the loop
ApiBackoff ==
    /\ api_pc = "failed"
    /\ attempt # api_args.max_retries - 1
    /\ \E jitter \in Jitter : slept' = Append(slept, Delay(attempt, jitter))
    /\ attempt' = attempt + 1
    /\ api_pc' = "call"
    /\ UNCHANGED <<api_args, outcomes>>
    /\ UNCHANGED <<batch_pc, batch_args, trace_files, tasks, results, written>>
    /\ NoRenderer
    /\ NoGen

\* range(max_retries) is exhausted without a return or a raise: the function
\* ends and returns None (only when max_retries is 0)
ApiFallThrough ==
    /\ api_pc = "call"
    /\ attempt >= api_args.max_retries
    /\ api_pc' = "returned_none"
    /\ UNCHANGED <<api_args, attempt, outcomes, slept>>
    /\ UNCHANGED <<batch_pc, batch_args, trace_files, tasks, results, written>>
    /\ NoRenderer
    /\ NoGen

NextApi == ApiAttempt \/ ApiRaise \/ ApiBackoff \/ ApiFallThrough

SpecApi == InitApi /\ [][NextApi]_vars

(***************************************************************************)
(* Tracker generation with retries: toolmaker/tool_maker_agent.py.  One    *)
(* step per pass of the loop of generate_with_retry, which is one call of  *)
(* generate_tracker_v2 with what that call does.                           *)
(***************************************************************************)
MaxGenRetries == 2

\* what running a generated tracker.py can give: a timeout, an exit status,
\* and the trace.json it left (none, not JSON, a JSON list, or an object)
TrackerRuns ==
    {[timeout |-> TRUE, returncode |-> 0, file |-> "none", trace |-> <<>>],
     [timeout |-> FALSE, returncode |-> 1, file |-> "object",
      trace |-> [svl_version |-> "5.0", initial_frame |-> <<>>, deltas |-> <<>>]],
     [timeout |-> FALSE, returncode |-> 0, file |-> "none", trace |-> <<>>],
     [timeout |-> FALSE, returncode |-> 0, file |-> "malformed", trace |-> <<>>],
     [timeout |-> FALSE, returncode |-> 0, file |-> "list", trace |-> <<>>],
     [timeout |-> FALSE, returncode |-> 0, file |-> "object",
      trace |-> [svl_version |-> "4.0", initial_frame |-> <<>>, deltas |-> <<>>]],
     [timeout |-> FALSE, returncode |-> 0, file |-> "object",
      trace |-> [initial_frame |-> <<>>, deltas |-> <<>>]],
     [timeout |-> FALSE, returncode |-> 0, file |-> "object",
      trace |-> [svl_version |-> "5.0", deltas |-> <<>>]],
     [timeout |-> FALSE, returncode |-> 0, file |-> "object",
      trace |-> [svl_version |-> "5.0", initial_frame |-> <<>>]],
     [timeout |-> FALSE, returncode |-> 0, file |-> "object",
      trace |-> [svl_version |-> "5.0", initial_frame |-> <<>>, deltas |-> <<>>]]}

\* what the LLM call of one attempt can give: an exception, or code with
\* the features quick_pre_check looks at and the run of that code
GoodRun == [timeout |-> FALSE, returncode |-> 0, file |-> "object",
            trace |-> [svl_version |-> "5.0", initial_frame |-> <<>>, deltas |-> <<>>]]
Generations ==
    {[raised |-> TRUE, keywords |-> FALSE, numeric_version |-> FALSE, infinity |-> FALSE,
      chinese_identifier |-> FALSE, run |-> GoodRun]}
    \cup {[raised |-> FALSE, keywords |-> k, numeric_version |-> n, infinity |-> FALSE,
           chinese_identifier |-> c, run |-> GoodRun] :
             k \in BOOLEAN, n \in BOOLEAN, c \in BOOLEAN}
    \cup {[raised |-> FALSE, keywords |-> TRUE, numeric_version |-> FALSE, infinity |-> TRUE,
           chinese_identifier |-> FALSE, run |-> GoodRun]}
    \cup {[raised |-> FALSE, keywords |-> TRUE, numeric_version |-> FALSE, infinity |-> FALSE,
           chinese_identifier |-> FALSE, run |-> r] : r \in TrackerRuns}

\* quick_pre_check, lines 122-164: (ok, message)
QuickPreCheck(code) ==
    IF ~code.keywords THEN [ok |-> FALSE, msg |-> "Missing required keywords"]
    ELSE IF code.numeric_version
    THEN [ok |-> FALSE, msg |-> "svl_version must be the string 5.0"]
    ELSE IF code.infinity THEN [ok |-> FALSE, msg |-> "Do not use Infinity"]
    ELSE IF code.chinese_identifier
    THEN [ok |-> FALSE, msg |-> "Chinese identifier detected"]
    ELSE [ok |-> TRUE, msg |-> ""]

\* run_and_validate_trace, lines 166-224: (ok, message)
RunAndValidateTrace(run) ==
    IF run.timeout THEN [ok |-> FALSE, msg |-> "Execution timed out (30 seconds)"]
    ELSE IF run.returncode # 0 THEN [ok |-> FALSE, msg |-> "Execution failed"]
    ELSE IF run.file = "none" THEN [ok |-> FALSE, msg |-> "trace.json was not generated"]
    ELSE IF run.file = "malformed"
    THEN [ok |-> FALSE, msg |-> "trace.json JSON decode error"]
    ELSE IF run.file # "object"
    THEN [ok |-> FALSE, msg |-> "trace.json root is not an object"]
    ELSE IF Get(run.trace, "svl_version") # "5.0"
    THEN [ok |-> FALSE, msg |-> "Invalid svl_version"]
    ELSE IF ~Has(run.trace, "initial_frame")
    THEN [ok |-> FALSE, msg |-> "Missing initial_frame in trace.json"]
    ELSE IF ~Has(run.trace, "deltas")
    THEN [ok |-> FALSE, msg |-> "Missing deltas in trace.json"]
    ELSE [ok |-> TRUE, msg |-> ""]

\* generate_tracker_v2, lines 227-352: (success, stats, error_msg); the
\* stats of a call that raised have no llm_calls
GenerateTrackerV2(previous_error, generation) ==
    IF generation.raised
    THEN [success |-> FALSE, stats |-> [error |-> "e"], error_msg |-> "Generation failed"]
    ELSE IF ~QuickPreCheck(generation).ok
    THEN [success |-> FALSE, stats |-> [llm_calls |-> 1],
          error_msg |-> "Pre-check error: " \o QuickPreCheck(generation).msg]
    ELSE IF ~RunAndValidateTrace(generation.run).ok
    THEN [success |-> FALSE, stats |-> [llm_calls |-> 1],
          error_msg |-> "Execution / validation error: "
                            \o RunAndValidateTrace(generation.run).msg]
    ELSE [success |-> TRUE, stats |-> [llm_calls |-> 1], error_msg |-> ""]

\* a loop that gives every attempt the error of the first failed one
FirstErrorKept(retry, max_retries, error_msg, last_error) ==
    IF retry < max_retries /\ error_msg = None THEN last_error ELSE error_msg

\* lines 397-401: the feedback for the next pass
NextErrorMsg(retry, max_retries, error_msg, last_error) ==
    IF retry < max_retries
    THEN (IF last_error = "" THEN "Unknown error" ELSE last_error)
    ELSE error_msg

\* generate_with_retry(max_retries), lines 361-376
InitGen ==
    /\ IdleRenderer
    /\ IdleBatch
    /\ IdleApi
    /\ \E max_retries \in (-1)..MaxGenRetries :
          gen = [pc |-> "loop", max_retries |-> max_retries, retry |-> 0,
                 error_msg |-> None, llm_calls |-> 0, attempts |-> <<>>,
                 result |-> <<>>]

\* lines 378-401: one pass of the loop
GenerateAttempt ==
    /\ gen # <<>>
    /\ gen.pc = "loop"
    /\ gen.retry < gen.max_retries + 1
    /\ \E generation \in Generations :
          LET out == GenerateTrackerV2(gen.error_msg, generation)
              made == Append(gen.attempts,
                             [previous_error |-> gen.error_msg, success |-> out.success,
                              last_error |-> out.error_msg])
          IN  gen' = IF out.success
                     THEN [gen EXCEPT !.pc = "returned",
                                      !.llm_calls = @ + 1,
                                      !.attempts = made,
                                      !.result = [success |-> TRUE, llm_calls |-> gen.llm_calls + 1,
                                                  retry_count |-> gen.retry]]
                     ELSE [gen EXCEPT !.llm_calls = @ + 1,
                                      !.attempts = made,
                                      !.error_msg = NextErrorMsg(gen.retry, gen.max_retries,
                                                                 gen.error_msg, out.error_msg),
                                      !.retry = @ + 1]
    /\ UNCHANGED <<batch_pc, batch_args, trace_files, tasks, results, written>>
    /\ NoApi
    /\ NoRenderer

\* line 404: every attempt failed
GenerateGiveUp ==
    /\ gen # <<>>
    /\ gen.pc = "loop"
    /\ gen.retry >= gen.max_retries + 1
    /\ gen' = [gen EXCEPT !.pc = "returned",
                          !.result = [success |-> FALSE, llm_calls |-> gen.llm_calls,
                                      retry_count |-> gen.max_retries]]
    /\ UNCHANGED <<batch_pc, batch_args, trace_files, tasks, results, written>>
    /\ NoApi
    /\ NoRenderer

NextGen == GenerateAttempt \/ GenerateGiveUp

SpecGen == InitGen /\ [][NextGen]_vars

(***************************************************************************)
(* Vocabulary of the properties.                                           *)
(***************************************************************************)
\* every operation the actions of Spec may put into a trace
Vocabulary ==
    UNION {{Entry(name, p) : p \in Params(name)} : name \in OpMap}
    \cup {Entry("futureOp", [updates |-> <<U(0, "y")>>])}

\* a step of Spec that handled one more entry of the trace, and that entry
Stepped == pc = "replay" /\ Len(TraceEntries(file_data')) = Len(TraceEntries(file_data)) + 1
Handed == TraceEntries(file_data')[Len(TraceEntries(file_data'))]

InitialArray == file_data.initial_frame.data_state.structure
MainArray(self) == self.current_data_state.structure

(***************************************************************************)
(* Properties.                                                             *)
(***************************************************************************)
\* C1: two replays of one trace, each by a renderer constructed for it, end
\* in the same final state: data state, auxiliary views, variables, comment,
\* annotations and dependencies of the second replay equal those the first
\* replay ended with.
DeterministicReplay ==
    (pc = "done" /\ replay = 2) => Observable(Self) = final1

\* both replays are over, and the first one added a view and filled it
TwoReplaysOfAGrowingView ==
    /\ pc = "done"
    /\ replay = 2
    /\ \E i \in DOMAIN final1.current_aux_views :
           /\ final1.current_aux_views[i].view_id = "z"
           /\ final1.current_aux_views[i].data # <<>>

\* C2: the replay reads the trace and never writes it: the document the
\* renderer holds (initial frame with its styles, and the params of every
\* operation) is equal to the document as it was loaded.
TraceReadOnly == svl_data = file_data

\* the entries of the document that line 271 lets through, by place
ValidPlaces(doc) ==
    UNION {UNION {{<<d, g, o>> :
                      o \in {o \in DOMAIN (IF Has(doc.deltas[d].operations[g], "list")
                                           THEN doc.deltas[d].operations[g].list
                                           ELSE <<doc.deltas[d].operations[g]>>) :
                                Truthy(Get((IF Has(doc.deltas[d].operations[g], "list")
                                            THEN doc.deltas[d].operations[g].list
                                            ELSE <<doc.deltas[d].operations[g]>>)[o],
                                           "op"))}} :
                  g \in DOMAIN GetOr(doc.deltas[d], "operations", <<>>)} :
           d \in DOMAIN doc.deltas}

\* place p comes before place q in the document
Before(p, q) ==
    \/ p[1] < q[1]
    \/ p[1] = q[1] /\ p[2] < q[2]
    \/ p[1] = q[1] /\ p[2] = q[2] /\ p[3] < q[3]

\* C3: the operations are handed to their handlers in the order of the
\* trace (deltas, then groups, then the operations of a group), each one
\* once; when a delta is left every operation of it has been applied, and
\* when the replay ends every operation of every delta has been.
AppliedInTraceOrder ==
    LET valid == ValidPlaces(svl_data)
        due == {p \in valid : IF pc = "ops" THEN p = pos \/ Before(p, pos)
                              ELSE p[1] <= pos[1]}
    IN  pc # "new" =>
            /\ Range(applied) = due
            /\ \A i, j \in DOMAIN applied : i < j => Before(applied[i], applied[j])
            /\ pc = "done" => pos[1] = Len(svl_data.deltas) /\ due = valid

\* a replay is over that applied three operations, two of them of one list group
ReplayedAListGroup ==
    /\ pc = "done"
    /\ Len(applied) = 3
    /\ Has(svl_data.deltas[1].operations[1], "list")
    /\ Len(svl_data.deltas[1].operations[1].list) = 2

\* C4: in an array trace the main array keeps the length it has in the
\* initial frame: no operation a trace applied changed it, and no operation
\* of the vocabulary would change it in the state reached.
ArrayLengthConstant ==
    (pc = "replay" /\ data_type = "array") =>
        /\ Len(MainArray(Self)) = Len(InitialArray)
        /\ \A entry \in Vocabulary :
               Len(MainArray(Dispatch(Self, entry))) = Len(MainArray(Self))

\* an array trace that moved elements and updated values, and changed the array
ArrayRearranged ==
    /\ family = "array"
    /\ \E i, j \in DOMAIN TraceEntries(file_data) :
           /\ TraceEntries(file_data)[i].op = "moveElements"
           /\ TraceEntries(file_data)[j].op = "updateValues"
    /\ MainArray(Self) # InitialArray

\* C5: the data type is the one the constructor derived from the initial
\* frame, the data state carries that type, and no operation of the
\* vocabulary would change either in the state reached.
DataTypeFixed ==
    pc = "replay" =>
        /\ data_type = InitRenderer(file_data, FALSE).data_type
        /\ GetOr(current_data_state, "type", "none") = data_type
        /\ \A entry \in Vocabulary :
               LET after == Dispatch(Self, entry) IN
               /\ after.data_type = data_type
               /\ GetOr(after.current_data_state, "type", "none") = data_type

\* a trace whose initial frame says "dp" replays as a table, and a cell was written
DpTraceIsATable ==
    /\ pc = "replay"
    /\ Get(file_data.initial_frame.data_state, "type") = "dp"
    /\ data_type = "table"
    /\ \E i \in DOMAIN TraceEntries(file_data) :
           TraceEntries(file_data)[i].op = "updateTableCell"
    /\ current_data_state.data # Grid

\* C6: in every array state reached, moveElements or shiftElements with one
\* pair of distinct indices in range, applied twice, gives back the array:
\* the value and state of every position are what they were, and the index
\* field of every element is its position.
MoveTwiceRestores ==
    (pc = "replay" /\ data_type = "array") =>
        \A i, j \in 0..(Len(MainArray(Self)) - 1) :
            \A entry \in {Entry("moveElements", [pairs |-> <<P(i, j)>>]),
                          Entry("shiftElements", [shifts |-> <<P(i, j)>>])} :
                i # j =>
                    LET before == MainArray(Self)
                        once == MainArray(Dispatch(Self, entry))
                        twice == MainArray(Dispatch(Dispatch(Self, entry), entry))
                    IN  /\ once[i + 1].value = before[j + 1].value
                        /\ once[j + 1].value = before[i + 1].value
                        /\ Len(twice) = Len(before)
                        /\ \A k \in DOMAIN before :
                               /\ twice[k].value = before[k].value
                               /\ twice[k].state = before[k].state
                               /\ twice[k].index = k - 1

\* a trace of the same swap twice, after which the array is the initial one
SwappedThereAndBack ==
    /\ family = "array"
    /\ TraceEntries(file_data) =
           <<Entry("moveElements", [pairs |-> <<P(0, 1)>>]),
             Entry("moveElements", [pairs |-> <<P(0, 1)>>])>>
    /\ InitialArray[1].value # InitialArray[2].value
    /\ MainArray(Self) = InitialArray

\* the nodes of a tree or graph state, and the children list of a node
NodesOf(state) == GetOr(GetOr(state, "structure", <<>>), "nodes", <<>>)
Children(node) == Range(GetOr(node, "children", <<>>))

\* C7: in a tree trace, reparent of an existing node without new_parent_id
\* makes the node the root, and afterwards no node that had it in its
\* children list (the node that was its parent) still has it there.
ReparentToRoot ==
    [][(/\ Stepped
        /\ data_type = "tree"
        /\ Get(Handed, "op") = "reparent"
        /\ ~Has(Handed.params, "new_parent_id")
        /\ Get(Handed.params, "node_id") \in NodeIds(NodesOf(current_data_state)))
       => /\ Get(current_data_state'.structure, "root") = Handed.params.node_id
          /\ \A k \in DOMAIN NodesOf(current_data_state) :
                 Handed.params.node_id \in Children(NodesOf(current_data_state)[k])
                 => \A h \in DOMAIN NodesOf(current_data_state') :
                        NodesOf(current_data_state')[h].id
                            = NodesOf(current_data_state)[k].id
                        => Handed.params.node_id
                               \notin Children(NodesOf(current_data_state')[h])
      ]_vars

\* after is before without its first x, or before itself if x is not in it
FirstMatchRemoved(before, after, x) ==
    IF \A i \in DOMAIN before : before[i] # x THEN after = before
    ELSE \E i \in DOMAIN before :
             /\ before[i] = x
             /\ \A h \in 1..(i - 1) : before[h] # x
             /\ after = [j \in 1..(Len(before) - 1) |->
                            IF j < i THEN before[j] ELSE before[j + 1]]

\* C8: popFromList with a value removes the first item equal to it from the
\* list addressed (the data of the first view of that id, or the named list
\* of a view of named lists) and changes nothing else; if the value is not in
\* the list, or no list is addressed, nothing changes; index and from, if
\* given too, play no part.
PopByValueRemovesFirstMatch ==
    [][(Stepped /\ Get(Handed, "op") = "popFromList" /\ Has(Handed.params, "value"))
       => LET params == Handed.params
              views == current_aux_views
              hits == {i \in DOMAIN views : Get(views[i], "view_id") = Get(params, "view_id")}
          IN  IF hits = {} THEN Observable(Self)' = Observable(Self)
              ELSE LET k == CHOOSE i \in hits : \A h \in hits : i <= h IN
                   /\ [Observable(Self)' EXCEPT !.current_aux_views = <<>>]
                          = [Observable(Self) EXCEPT !.current_aux_views = <<>>]
                   /\ Len(current_aux_views') = Len(views)
                   /\ \A i \in DOMAIN views : i # k => current_aux_views'[i] = views[i]
                   /\ Del(current_aux_views'[k], "data") = Del(views[k], "data")
                   /\ IF Get(views[k], "type") # "lists"
                      THEN FirstMatchRemoved(views[k].data, current_aux_views'[k].data,
                                             params.value)
                      ELSE IF Has(params, "list_key") /\ Has(views[k].data, params.list_key)
                      THEN /\ DOMAIN current_aux_views'[k].data = DOMAIN views[k].data
                           /\ \A key \in DOMAIN views[k].data :
                                  IF key = params.list_key
                                  THEN FirstMatchRemoved(views[k].data[key],
                                                         current_aux_views'[k].data[key],
                                                         params.value)
                                  ELSE current_aux_views'[k].data[key] = views[k].data[key]
                      ELSE current_aux_views'[k] = views[k]
      ]_vars

\* the first operation of the trace popped "x" from the list x, y, x
PoppedFirstOfTwo ==
    /\ family = "aux"
    /\ Len(TraceEntries(file_data)) = 1
    /\ TraceEntries(file_data)[1] = Entry("popFromList", [view_id |-> "q", value |-> "x"])
    /\ ListView.data = <<"x", "y", "x">>
    /\ current_aux_views[1].data = <<"y", "x">>

\* C9: an operation whose name is not a key of the handler table changes no
\* observable state, and the document only gains the entry; the entries
\* after it are handled as ever.
UnknownOperationIgnored ==
    [][(Stepped /\ Truthy(Get(Handed, "op")) /\ Handed.op \notin OpMap)
       => /\ Observable(Self)' = Observable(Self)
          /\ svl_data' = AppendEntry(svl_data, Handed)
      ]_vars

\* an unknown operation was followed by an update that took effect
UnknownThenUpdate ==
    /\ family = "array"
    /\ Len(TraceEntries(file_data)) = 2
    /\ TraceEntries(file_data)[1].op = "futureOp"
    /\ TraceEntries(file_data)[2] = Entry("updateValues", [updates |-> <<U(0, "y")>>])
    /\ InitialArray[1].value = "x"
    /\ MainArray(Self)[1].value = "y"

\* the operation names something the state does not have: every array index,
\* table row or bucket index of it is out of range, or a node id, parent id,
\* new parent id or edge endpoint of it is the id of no node
Dangling(self, entry) ==
    LET op_name == Get(entry, "op")
        params == GetOr(entry, "params", <<>>)
        state == self.current_data_state
        ids == NodeIds(NodesOf(state))
        oob(i) == ~InBounds(i, Len(state.structure))
        is(type) == self.data_type = type
    IN  CASE op_name = "updateValues" ->
                 /\ is("array") /\ Has(params, "updates") /\ params.updates # <<>>
                 /\ \A i \in DOMAIN params.updates : oob(params.updates[i].index)
          [] op_name = "updateStyle" ->
                 /\ is("array") /\ Has(params, "indices") /\ params.indices # <<>>
                 /\ \A i \in DOMAIN params.indices : oob(params.indices[i])
          [] op_name = "moveElements" ->
                 /\ is("array") /\ Has(params, "pairs") /\ params.pairs # <<>>
                 /\ \A i \in DOMAIN params.pairs :
                        oob(params.pairs[i].fromIndex) \/ oob(params.pairs[i].toIndex)
          [] op_name = "shiftElements" ->
                 /\ is("array") /\ Has(params, "shifts") /\ params.shifts # <<>>
                 /\ \A i \in DOMAIN params.shifts :
                        oob(params.shifts[i].fromIndex) \/ oob(params.shifts[i].toIndex)
          [] op_name = "updateTableCell" ->
                 /\ is("table") /\ Has(params, "updates") /\ params.updates # <<>>
                 /\ \A i \in DOMAIN params.updates :
                        ~InBounds(params.updates[i].row, Len(state.data))
          [] op_name \in {"insertIntoBucket", "updateInBucket", "removeFromBucket"} ->
                 /\ is("hashtable") /\ Has(params, "bucket_index")
                 /\ ~InBounds(params.bucket_index, Len(state.structure.buckets))
          [] op_name = "removeNode" ->
                 is("graph") /\ Has(params, "id") /\ params.id \notin ids
          [] op_name = "updateNodeStyle" ->
                 /\ self.data_type \in {"graph", "tree"} /\ Has(params, "ids")
                 /\ params.ids # <<>> /\ Range(params.ids) \cap ids = {}
          [] op_name = "updateNodeProperties" ->
                 /\ self.data_type \in {"graph", "tree"} /\ Has(params, "updates")
                 /\ params.updates # <<>>
                 /\ \A i \in DOMAIN params.updates : params.updates[i].id \notin ids
          [] op_name = "addEdge" ->
                 /\ is("graph") /\ Has(params, "edge")
                 /\ (params.edge.from \notin ids \/ params.edge.to \notin ids)
          [] op_name = "removeEdge" ->
                 /\ is("graph") /\ Has(params, "from") /\ Has(params, "to")
                 /\ (params.from \notin ids \/ params.to \notin ids)
          [] op_name = "addChild" ->
                 is("tree") /\ Has(params, "parent_id") /\ params.parent_id \notin ids
          [] op_name = "removeChild" ->
                 /\ is("tree") /\ Has(params, "parent_id") /\ Has(params, "child_id")
                 /\ (params.parent_id \notin ids \/ params.child_id \notin ids)
          [] op_name = "reparent" ->
                 /\ is("tree") /\ Has(params, "node_id")
                 /\ \/ params.node_id \notin ids
                    \/ Has(params, "new_parent_id") /\ params.new_parent_id \notin ids
          [] op_name = "swapNodes" ->
                 /\ is("tree") /\ Has(params, "a_id") /\ Has(params, "b_id")
                 /\ (params.a_id \notin ids \/ params.b_id \notin ids)
          [] OTHER -> FALSE

\* C10: an operation that names something the state does not have changes
\* nothing: the observable state after it is the state before it.
DanglingReferenceIsNoOp ==
    [][(Stepped /\ Dangling(Self, Handed)) => Observable(Self)' = Observable(Self)]_vars

\* C11: replaying the trace the sieve tracker writes for n leaves "T" exactly
\* at the primes below n; for n = 10 these are the indices 2, 3, 5 and 7, so
\* the count of "T" entries is 4.
SieveInput == Len(file_data.initial_frame.data_state.structure)
TrueIndices ==
    {i \in 0..(Len(current_data_state.structure) - 1) :
        current_data_state.structure[i + 1].value = "T"}
IsPrime(k) == k >= 2 /\ \A d \in 2..(k - 1) : k % d # 0
SieveLeavesThePrimes ==
    (pc = "done" /\ SieveInput > 2) =>
        /\ Len(current_data_state.structure) = SieveInput
        /\ TrueIndices = {k \in 0..(SieveInput - 1) : IsPrime(k)}
        /\ SieveInput = 10 => (TrueIndices = {2, 3, 5, 7} /\ Cardinality(TrueIndices) = 4)

SieveOfTenReplayed ==
    /\ pc = "done"
    /\ SieveInput = 10
    /\ Cardinality(TrueIndices) = 4
    /\ Len(applied) = Len(TraceEntries(file_data))

\* C12: in a tree, addChild(parent_id = p, node = n) for a node p of the tree
\* and an id the tree does not have, followed by removeChild(p, n.id), leaves
\* the root and the children list of every node of the tree as they were.
ChildList(node) == GetOr(node, "children", <<>>)
AddedThenRemoved(self, p, params) ==
    Dispatch(Dispatch(self, Entry("addChild", params)),
             Entry("removeChild", [parent_id |-> p, child_id |-> params.node.id]))
AddChildThenRemoveChildRestores ==
    (pc = "replay" /\ data_type = "tree") =>
        \A p \in {id \in NodeIds(NodesOf(current_data_state)) : Truthy(id)},
           x \in {"n", "m"} \ NodeIds(NodesOf(current_data_state)),
           extra \in {<<>>, [index |-> 0], [index |-> 1], [index |-> 7]} :
            LET params == Merge([parent_id |-> p, node |-> [id |-> x, label |-> "N"]], extra)
                after == AddedThenRemoved(Self, p, params).current_data_state
            IN  /\ Get(after.structure, "root") = Get(current_data_state.structure, "root")
                /\ \A k \in DOMAIN NodesOf(current_data_state) :
                      /\ Get(NodesOf(after)[k], "id") = Get(NodesOf(current_data_state)[k], "id")
                      /\ ChildList(NodesOf(after)[k])
                            = ChildList(NodesOf(current_data_state)[k])

AddedAndRemovedAChild ==
    /\ data_type = "tree"
    /\ Len(TraceEntries(file_data)) = 2
    /\ TraceEntries(file_data)[1] = Entry("addChild", [parent_id |-> "r", node |-> NewNode])
    /\ TraceEntries(file_data)[2] = Entry("removeChild", [parent_id |-> "r", child_id |-> "n"])
    /\ "n" \in NodeIds(NodesOf(current_data_state))
    /\ ChildList(NodesOf(current_data_state)[1]) = <<"c">>
    /\ current_data_state.structure.root = "r"

\* C13: in a hashtable, for every bucket index b in range whose items do not
\* hold the key k, insertIntoBucket(b, {key: k, value: v}) followed by
\* removeFromBucket(b, key = k) leaves the items of bucket b, and of every
\* other bucket, as they were.
BucketsOf(state) == GetOr(GetOr(state, "structure", <<>>), "buckets", <<>>)
ItemsOf(bucket) == GetOr(bucket, "items", <<>>)
InsertedThenRemoved(self, b, k, v) ==
    Dispatch(Dispatch(self, Entry("insertIntoBucket",
                                  [bucket_index |-> b, element |-> [key |-> k, value |-> v]])),
             Entry("removeFromBucket", [bucket_index |-> b, key |-> k]))
InsertThenRemoveRestoresBucket ==
    (pc = "replay" /\ data_type = "hashtable") =>
        \A b \in 0..(Len(BucketsOf(current_data_state)) - 1), k \in {"k", "j", "a"},
           v \in {"1", "2"} :
            (\A i \in DOMAIN ItemsOf(BucketsOf(current_data_state)[b + 1]) :
                Get(ItemsOf(BucketsOf(current_data_state)[b + 1])[i], "key") # k)
            => LET after == InsertedThenRemoved(Self, b, k, v).current_data_state IN
               /\ Len(BucketsOf(after)) = Len(BucketsOf(current_data_state))
               /\ \A c \in DOMAIN BucketsOf(current_data_state) :
                     ItemsOf(BucketsOf(after)[c]) = ItemsOf(BucketsOf(current_data_state)[c])

InsertedAndRemovedAnElement ==
    /\ data_type = "hashtable"
    /\ Len(TraceEntries(file_data)) = 2
    /\ TraceEntries(file_data)[1]
          = Entry("insertIntoBucket", [bucket_index |-> 0, element |-> NewElement])
    /\ TraceEntries(file_data)[2] = Entry("removeFromBucket", [bucket_index |-> 0, key |-> "j"])
    /\ ItemsOf(BucketsOf(current_data_state)[1]) = ItemsOf(HashState.structure.buckets[1])
    /\ ItemsOf(BucketsOf(current_data_state)[1]) # <<>>

\* the entries of the delta being applied, and those of them that are showComment
CurrentDelta == GroupEntries(file_data.deltas[Len(file_data.deltas)].operations[1])
ShownIn(entries) == SelectSeq(entries, LAMBDA e : Get(e, "op") = "showComment")
TextOf(entry) == Get(GetOr(entry, "params", <<>>), "text")
Unset(text) == IF Truthy(text) THEN text ELSE None

\* C14 as stated: the current comment is the text of the last showComment of
\* the delta being applied, whatever that text is, and it is unset when the
\* delta has no showComment.
CommentIsLastShown ==
    (pc = "replay" /\ Len(file_data.deltas) >= 1) =>
        LET shown == ShownIn(CurrentDelta) IN
        current_comment_text
            = IF shown = <<>> THEN None ELSE Unset(TextOf(shown[Len(shown)]))

\* C14: the current comment is the text of the last showComment of the delta
\* being applied whose text is not empty; a showComment with an empty or
\* missing text leaves the comment as it is; the comment is unset at the start
\* of every delta, so it is unset after a delta without such a showComment.
CommentIsLastNonEmptyShown ==
    (pc = "replay" /\ Len(file_data.deltas) >= 1) =>
        LET shown == SelectSeq(ShownIn(CurrentDelta), LAMBDA e : Truthy(TextOf(e))) IN
        current_comment_text = IF shown = <<>> THEN None ELSE TextOf(shown[Len(shown)])

CommentClearedByTheNextDelta ==
    /\ pc = "replay"
    /\ Len(file_data.deltas) = 2
    /\ ShownIn(GroupEntries(file_data.deltas[1].operations[1])) = <<Entry("showComment", [text |-> "hi"])>>
    /\ Len(CurrentDelta) = 1
    /\ ShownIn(CurrentDelta) = <<>>
    /\ current_comment_text = None

\* the operations that register an annotation of a kind
RegisteredBy(kind) ==
    CASE kind = "array_compare" -> {"updateStyle"}
      [] kind = "swap_arrows" -> {"moveElements", "shiftElements", "updateValues"}
      [] kind = "array_change_flash" -> {"updateValues"}
      [] kind = "table_highlight" -> {"highlightTableCell"}
      [] OTHER -> {}
OpsOf(entries) == {Get(entries[i], "op") : i \in DOMAIN entries}
IsBoundaryBox(e) == Get(e, "type") = "boundary_box"

\* C15: the start of a delta removes every annotation but the boundary boxes,
\* empties the dependency list and unsets the comment; so at any time every
\* annotation that is not a boundary box, every dependency and the comment
\* were registered by an operation of the delta being applied.
DeltaStartResetsAnnotations ==
    /\ pc = "replay" =>
          \A meta \in Metas(family) :
              LET after == BeginApplyDelta(Self, NewDelta(meta)) IN
              /\ after.temp_elements = SelectSeq(temp_elements, IsBoundaryBox)
              /\ after.dependencies = <<>>
              /\ after.current_comment_text = None
    /\ (pc = "replay" /\ Len(file_data.deltas) >= 1) =>
          /\ \A i \in DOMAIN temp_elements :
                \/ IsBoundaryBox(temp_elements[i])
                \/ RegisteredBy(Get(temp_elements[i], "type")) \cap OpsOf(CurrentDelta) # {}
          /\ dependencies # <<>> => "showDependency" \in OpsOf(CurrentDelta)
          /\ current_comment_text # None => "showComment" \in OpsOf(CurrentDelta)

OnlyTheBoundarySurvived ==
    /\ pc = "replay"
    /\ Len(file_data.deltas) = 2
    /\ CurrentDelta = <<>>
    /\ OpsOf(GroupEntries(file_data.deltas[1].operations[1]))
          \in {{"updateBoundary", "highlightTableCell"}, {"updateBoundary", "showDependency"}}
    /\ Len(temp_elements) = 1
    /\ IsBoundaryBox(temp_elements[1])
    /\ dependencies = <<>>

\* the ids that a removeNode of the delta being applied removed and that no
\* node of the state has
RemovedInDelta ==
    {Get(CurrentDelta[i].params, "id") :
        i \in {j \in DOMAIN CurrentDelta : Get(CurrentDelta[j], "op") = "removeNode"}}
    \ NodeIds(NodesOf(current_data_state))
EdgesOf(state) == GetOr(GetOr(state, "structure", <<>>), "edges", <<>>)

\* C16: after the operations of a delta, no edge of a graph has an endpoint
\* that an operation of that delta removed, and no children list of a tree
\* names a node that an operation of that delta removed.
NoReferenceToARemovedNode ==
    (pc = "replay" /\ Len(file_data.deltas) >= 1 /\ data_type \in {"graph", "tree"}) =>
        /\ \A i \in DOMAIN EdgesOf(current_data_state) :
              /\ Get(EdgesOf(current_data_state)[i], "from") \notin RemovedInDelta
              /\ Get(EdgesOf(current_data_state)[i], "to") \notin RemovedInDelta
        /\ \A k \in DOMAIN NodesOf(current_data_state) :
              Children(NodesOf(current_data_state)[k]) \cap RemovedInDelta = {}

\* C17: a trace whose svl_version is not "5.0", or that has none, is rejected:
\* no replay engine is constructed for it and none of its deltas is applied.
UnsupportedVersionRejected ==
    Get(file_data, "svl_version") # "5.0" => (pc = "new" /\ applied = <<>>)


\* the position of a trace among the traces collected
TaskOf(trace_path) == CHOOSE i \in DOMAIN tasks : tasks[i].trace = trace_path
RecordsOf(trace_path) == {k \in DOMAIN results : results[k].trace = trace_path}

\* C18: in batch mode a failure of one trace's pipeline (LLM, validation or
\* rendering error) stays with that trace.  The main program never aborts;
\* every trace has exactly one result record once its future was yielded and
\* none before, the record is a failed one with its error text exactly when
\* the trace's own pipeline raised; while the pool is open some step can
\* always be taken, so the siblings of a failed trace run to completion; and
\* at the summary every trace has its record and the succeeded and failed
\* counts add up to the number of traces.
BatchFailureIsolated ==
    /\ batch_pc # "aborted"
    /\ \A i \in DOMAIN tasks :
          /\ Cardinality(RecordsOf(tasks[i].trace)) =
                 (IF tasks[i].pc = "collected" THEN 1 ELSE 0)
          /\ \A k \in RecordsOf(tasks[i].trace) :
                /\ results[k].ok = ~tasks[i].raised
                /\ results[k].ok => results[k].error = ""
                /\ ~results[k].ok => results[k].error # ""
    /\ batch_pc = "pool" => ENABLED NextBatch
    /\ batch_pc = "summary" =>
          /\ Len(results) = Len(trace_files)
          /\ \A i \in DOMAIN tasks : tasks[i].pc = "collected"
          /\ OkCnt(results) + FailCnt(results) = Len(trace_files)
          /\ FailCnt(results) = Cardinality({i \in DOMAIN tasks : tasks[i].raised})

\* a batch of two traces whose first record is a failure and whose second
\* record is a success reached its summary
FailedTraceBesideARenderedOne ==
    /\ batch_pc = "summary"
    /\ Len(results) = 2
    /\ ~results[1].ok
    /\ results[2].ok
    /\ tasks[TaskOf(results[1].trace)].raised

\* C19: under every interleaving no file (video, tuned video, RSL, tuned
\* RSL, render config, movie in a Manim media directory) is written by the
\* pipelines of two different traces of the batch.
NoFileWrittenByTwoTraces ==
    \A a \in written, b \in written : a.file = b.file => a.trace = b.trace


Failures == {k \in DOMAIN outcomes : outcomes[k] = "error"}

\* C20: call_api makes at most max_retries attempts; a success is the last
\* attempt made and is returned; between consecutive failed attempts it
\* sleeps once, the k-th sleep lasting 0.5 * 2^(k-1) seconds plus less than
\* half a second, so that the base doubles from one sleep to the next; and
\* the error reaches the caller only after max_retries failed attempts in a
\* row, and then always.
ApiRetriesWithBackoff ==
    /\ Len(outcomes) <= api_args.max_retries
    /\ \A k \in DOMAIN outcomes : outcomes[k] = "ok" => k = Len(outcomes)
    /\ api_pc = "returned" <=> (outcomes # <<>> /\ outcomes[Len(outcomes)] = "ok")
    /\ Len(slept) = (IF api_pc = "call" THEN Len(outcomes)
                     ELSE IF outcomes = <<>> THEN 0 ELSE Len(outcomes) - 1)
    /\ \A k \in DOMAIN slept :
          /\ slept[k] >= 500 * Pow2(k - 1)
          /\ slept[k] < 500 * Pow2(k - 1) + 500
    /\ \A k \in DOMAIN slept :
          k + 1 \in DOMAIN slept =>
              (slept[k + 1] \div 500) = 2 * (slept[k] \div 500)
    /\ api_pc = "raised" =>
          /\ Len(outcomes) = api_args.max_retries
          /\ Failures = DOMAIN outcomes
    /\ (api_args.max_retries > 0 /\ Cardinality(Failures) = api_args.max_retries) =>
          api_pc \in {"failed", "raised"}

\* the third attempt succeeded after two sleeps
ThirdAttemptSucceeded ==
    /\ api_pc = "returned"
    /\ Len(outcomes) = 3
    /\ Len(slept) = 2
    /\ slept[2] >= 1000


\* C21: removeNode in a graph removes the nodes with the given id from the
\* node list and nothing else: the edge list is as it was, edges at the
\* removed node included, and such an edge is only left out when the graph
\* is drawn.
RemoveNodeDoesNotCascade ==
    (pc = "replay" /\ data_type = "graph") =>
        \A x \in {"r", "c", "n", "zz"} :
            LET after == Dispatch(Self, Entry("removeNode", [id |-> x])).current_data_state
            IN  /\ NodesOf(after) = SelectSeq(NodesOf(current_data_state),
                                              LAMBDA n : Get(n, "id") # x)
                /\ EdgesOf(after) = EdgesOf(current_data_state)
                /\ \A i \in DOMAIN DrawnEdges(after) :
                      /\ Get(DrawnEdges(after)[i], "from") # x
                      /\ Get(DrawnEdges(after)[i], "to") # x

\* a removeNode of the delta being applied removed r and an edge from r is
\* still in the edge list, and is not drawn
EdgeOutlivedItsNode ==
    /\ pc = "replay"
    /\ data_type = "graph"
    /\ Len(file_data.deltas) >= 1
    /\ "r" \in RemovedInDelta
    /\ \E i \in DOMAIN EdgesOf(current_data_state) :
          Get(EdgesOf(current_data_state)[i], "from") = "r"
    /\ \A i \in DOMAIN DrawnEdges(current_data_state) :
          Get(DrawnEdges(current_data_state)[i], "from") # "r"


\* the main array after moveElements with the pairs given
Moved(pairs) ==
    MainArray(Dispatch(Self, Entry("moveElements", [pairs |-> pairs])))
\* pairs that moveElements drops: equal ends, an end out of bounds, an end missing
DroppedPairs(a) == {P(a, a), P(a, ArrLen), P(-1, a), P(ArrLen + 1, ArrLen + 2), [fromIndex |-> a]}

\* C22: moveElements takes its pairs as unordered and once each: with (a,b)
\* and (b,a), or (a,b) twice, in one operation the cells a and b are
\* exchanged exactly once; a pair with equal ends or with an end out of
\* bounds is dropped and the other pairs act as without it.
MoveElementsDedupes ==
    (pc = "replay" /\ data_type = "array" /\ Has(current_data_state, "structure")
        /\ Len(current_data_state.structure) = ArrLen) =>
        \A a \in 0..(ArrLen - 1), b \in 0..(ArrLen - 1) :
            a # b =>
                LET arr == current_data_state.structure
                    once == Moved(<<P(a, b)>>)
                IN  /\ Len(once) = Len(arr)
                    /\ once[a + 1].value = arr[b + 1].value
                    /\ once[b + 1].value = arr[a + 1].value
                    /\ \A k \in DOMAIN arr : k \notin {a + 1, b + 1} => once[k] = arr[k]
                    /\ Moved(<<P(a, b), P(b, a)>>) = once
                    /\ Moved(<<P(a, b), P(a, b)>>) = once
                    /\ \A d \in DroppedPairs(a) :
                          /\ Moved(<<d>>) = arr
                          /\ Moved(<<d, P(a, b)>>) = once
                          /\ Moved(<<P(a, b), d>>) = once

\* the trace's one operation is moveElements with (0,1) and (1,0), and the
\* cells 0 and 1 of the initial array are exchanged
SymmetricPairsMovedOnce ==
    /\ pc = "replay"
    /\ data_type = "array"
    /\ Len(TraceEntries(file_data)) = 1
    /\ TraceEntries(file_data)[1] = Entry("moveElements", [pairs |-> <<P(0, 1), P(1, 0)>>])
    /\ current_data_state.structure[1].value = InitialArray[2].value
    /\ current_data_state.structure[2].value = InitialArray[1].value
    /\ InitialArray[1].value # InitialArray[2].value


\* the annotations after one more updateStyle of the delta being applied
Restyled(params) == Dispatch(Self, Entry("updateStyle", params)).temp_elements

\* C23: every array_compare annotation holds at most 6 pairs, however many
\* indices an updateStyle lists and however many updateStyle operations of
\* one compare style the delta has: now, and after one more updateStyle.
ComparePairsCapped ==
    pc = "replay" =>
        /\ \A i \in DOMAIN temp_elements :
              Get(temp_elements[i], "type") = "array_compare" =>
                  Len(temp_elements[i].pairs) <= MaxComparePairs
        /\ \A params \in Params("updateStyle") :
              \A i \in DOMAIN Restyled(params) :
                  Get(Restyled(params)[i], "type") = "array_compare" =>
                      Len(Restyled(params)[i].pairs) <= MaxComparePairs


\* the views of the state that hold a plain list, by position
ListViews ==
    {k \in DOMAIN current_aux_views :
        /\ Has(current_aux_views[k], "data")
        /\ Get(current_aux_views[k], "type") = "list"
        /\ FindAuxViewById(Self, Get(current_aux_views[k], "view_id")) = k}
\* the list of the view at position k after popFromList with the params
Popped(k, params) ==
    Dispatch(Self, Entry("popFromList",
                         Put(params, "view_id", current_aux_views[k].view_id))
            ).current_aux_views[k].data
PopModes ==
    {[value |-> "x"], [value |-> "w"], [value |-> "w", index |-> 0],
     [value |-> "w", from |-> "head"], [index |-> 0], [index |-> 0, from |-> "tail"],
     [index |-> 9], [index |-> 9, from |-> "head"], [index |-> 9, from |-> "tail"],
     [from |-> "head"], [from |-> "tail"], <<>>}

\* C24: popFromList takes exactly one removal mode, in the order by value,
\* by index, head, tail: with a value only the first equal item is removed;
\* else with an index only the item at that index, and nothing when the
\* index is out of range; else the first item for from = head and the last
\* for from = tail; never more than one item.
PopTakesOneMode ==
    pc = "replay" =>
        \A k \in ListViews, params \in PopModes :
            LET lst == current_aux_views[k].data
                after == Popped(k, params)
            IN  /\ Len(after) >= Len(lst) - 1
                /\ after =
                     (IF Has(params, "value") THEN RemoveFirst(lst, params.value)
                      ELSE IF Has(params, "index")
                      THEN (IF InBounds(params.index, Len(lst))
                            THEN PopAt(lst, params.index) ELSE lst)
                      ELSE IF lst = <<>> THEN lst
                      ELSE IF Get(params, "from") = "head" THEN Tail(lst)
                      ELSE IF Get(params, "from") = "tail" THEN SubSeq(lst, 1, Len(lst) - 1)
                      ELSE lst)


\* the nodes of the tree after reparent with the params
Reparented(params) ==
    NodesOf(Dispatch(Self, Entry("reparent", params)).current_data_state)
\* how often an id is in a children list
Occurrences(children, id) == Cardinality({i \in DOMAIN children : children[i] = id})

\* C25: reparent of a node of the tree to another node of the tree leaves
\* the node once in the children list of the new parent, at the index given
\* when that is within 0..length, and in the children list of no other
\* node, however the node came to its old parent.
ReparentMovesTheNode ==
    (pc = "replay" /\ data_type = "tree") =>
        \A x \in {id \in NodeIds(NodesOf(current_data_state)) : Truthy(id)},
           y \in {id \in NodeIds(NodesOf(current_data_state)) : Truthy(id)},
           extra \in {<<>>, [index |-> 0], [index |-> 7]} :
            x # y =>
                LET after == Reparented(Merge([node_id |-> x, new_parent_id |-> y], extra))
                IN  \A k \in DOMAIN after :
                        IF Get(after[k], "id") = y
                        THEN Occurrences(ChildList(after[k]), x) = 1
                        ELSE Occurrences(ChildList(after[k]), x) = 0


\* the pipeline of task i returned a video
Returned(i) == tasks[i].pc \in {"done", "collected"} /\ ~tasks[i].raised
VideoOf(i) == tasks[i].future.res.video
\* the pipeline of task i wrote a tuned render config
TunedConfigWritten(i) ==
    [file |-> TunedCfgPath(tasks[i].trace), trace |-> tasks[i].trace] \in written
\* the tuned values are the old ones plus the step, or the cap
TunedWithinCaps(rsl) ==
    LET old == GetOr(rsl, "timeline", <<>>)
        new == TuneValues(rsl).timeline
        main == GetOr(GetOr(rsl, "layout", <<>>), "main", <<>>)
        spacing == GetOr(GetOr(main, "params", <<>>), "node_spacing", 350)
    IN  /\ new.transition <= 200
        /\ new.transition \in {GetOr(old, "transition", 50) + 10, 200}
        /\ new.pause <= 100
        /\ new.pause \in {GetOr(old, "pause", 30) + 5, 100}
        /\ GetOr(main, "type", "") \in {"force_directed", "hierarchical", "circular"} =>
              /\ TuneValues(rsl).layout.main.params.node_spacing <= 1000
              /\ TuneValues(rsl).layout.main.params.node_spacing \in {spacing + 30, 1000}
\* the original video is rendered before anything else, and at most one more
FirstRenderFirst(i) ==
    /\ tasks[i].renders <= 2
    /\ tasks[i].pc \in {"eval", "tune", "render_tuned"} => tasks[i].renders = 1
    /\ tasks[i].pc = "eval_tuned" => tasks[i].renders = 2
    /\ Returned(i) => tasks[i].renders >= 1
    /\ tasks[i].pc = "tune" => TunedWithinCaps(tasks[i].rsl)
\* two renders, and the tuned video exactly when its score is not lower
TunedOrOriginal(i) ==
    /\ tasks[i].renders = 2
    /\ VideoOf(i) = (IF tasks[i].score1 >= tasks[i].score0
                     THEN GetVideoPaths(tasks[i].trace).tuned
                     ELSE GetVideoPaths(tasks[i].trace).video)
OriginalOnly(i) ==
    /\ tasks[i].renders = 1
    /\ VideoOf(i) = GetVideoPaths(tasks[i].trace).video

\* C26: pipeline_with_one_tune renders the original video first; without
\* tuning, or with a negative first score, it returns the original after
\* that one render; otherwise it renders exactly one tuned video, with
\* transition, pause and node_spacing raised up to their caps, and returns
\* the tuned video exactly when its score is at least the original's.
OneTuneRendersTheTunedVideo ==
    \A i \in DOMAIN tasks :
        /\ FirstRenderFirst(i)
        /\ Returned(i) =>
              IF ~batch_args.tune_once \/ tasks[i].score0 < 0
              THEN OriginalOnly(i)
              ELSE TunedOrOriginal(i)

\* C26, amended: as above, but when the tuned render config fails its
\* validation nothing more is rendered and the original is returned.
OneTuneRendersAtMostOnceMore ==
    \A i \in DOMAIN tasks :
        /\ FirstRenderFirst(i)
        /\ Returned(i) =>
              IF ~batch_args.tune_once \/ tasks[i].score0 < 0 \/ ~TunedConfigWritten(i)
              THEN OriginalOnly(i)
              ELSE TunedOrOriginal(i)

\* a pipeline rendered the tuned video, scored it lower and returned the original
TunedVideoScoredLower ==
    \E i \in DOMAIN tasks :
        /\ Returned(i)
        /\ tasks[i].renders = 2
        /\ tasks[i].score1 >= 0
        /\ tasks[i].score1 < tasks[i].score0
        /\ VideoOf(i) = GetVideoPaths(tasks[i].trace).video


\* C27: generate_with_retry makes at most max_retries + 1 attempts and then
\* returns; no attempt follows a successful one; every attempt after the
\* first is given the error message of the attempt before it; the llm_calls
\* returned is the number of attempts made; success is returned exactly
\* when the last attempt made succeeded, and failure only after
\* max_retries + 1 failed attempts.
GenerationRetriesBounded ==
    gen # <<>> =>
        /\ Len(gen.attempts) <= (IF gen.max_retries < 0 THEN 0 ELSE gen.max_retries + 1)
        /\ gen.llm_calls = Len(gen.attempts)
        /\ \A k \in DOMAIN gen.attempts :
              /\ gen.attempts[k].success => k = Len(gen.attempts)
              /\ gen.attempts[k].previous_error =
                    (IF k = 1 THEN None ELSE gen.attempts[k - 1].last_error)
        /\ gen.pc = "loop" => ENABLED NextGen
        /\ gen.pc = "returned" =>
              /\ gen.result.llm_calls = Len(gen.attempts)
              /\ gen.result.success =
                    (gen.attempts # <<>> /\ gen.attempts[Len(gen.attempts)].success)
              /\ ~gen.result.success =>
                    Len(gen.attempts) = (IF gen.max_retries < 0 THEN 0 ELSE gen.max_retries + 1)

\* the third attempt succeeded after two different errors
ThirdGenerationValid ==
    /\ gen # <<>>
    /\ gen.pc = "returned"
    /\ gen.result.success
    /\ gen.result.llm_calls = 3
    /\ gen.attempts[1].last_error # gen.attempts[2].last_error
    /\ gen.attempts[3].previous_error = gen.attempts[2].last_error


\* C28: auxiliary views are keyed by view_id: no two views of the current
\* state have the same view_id, and removeAuxView(view_id) removes exactly
\* one view whenever a view of that id exists.
ViewIdsUnique ==
    pc = "replay" =>
        /\ \A i \in DOMAIN current_aux_views, j \in DOMAIN current_aux_views :
              i # j => Get(current_aux_views[i], "view_id") # Get(current_aux_views[j], "view_id")
        /\ \A v \in {"q", "z", "m", "t"} :
              FindAuxViewById(Self, v) # 0 =>
                  Len(Dispatch(Self, Entry("removeAuxView", [view_id |-> v])).current_aux_views)
                      = Len(current_aux_views) - 1

\* C29: boundary boxes are named by their type: in every state of a replay
\* the temp annotations hold at most one boundary box per boundary type (a
\* repeated updateBoundary replaces the earlier box of its type), and
\* removeBoundary(type) leaves no box of that type and every other box as
\* it was.
BoxesOfType(self, type) ==
    SelectSeq(self.temp_elements,
              LAMBDA e : IsBoundaryBox(e) /\ Get(e, "original_type") = type)

BoundaryTypes == {Get(p, "type") : p \in Params("updateBoundary")}

OneBoundaryBoxPerType ==
    pc = "replay" =>
        /\ \A type \in BoundaryTypes : Len(BoxesOfType(Self, type)) <= 1
        /\ \A p \in Params("updateBoundary") :
              Len(BoxesOfType(Dispatch(Self, Entry("updateBoundary", p)), Get(p, "type"))) = 1
        /\ \A p \in Params("removeBoundary") :
              LET after == Dispatch(Self, Entry("removeBoundary", p)) IN
              /\ Len(BoxesOfType(after, Get(p, "type"))) = 0
              /\ \A type \in BoundaryTypes \ {Get(p, "type")} :
                    BoxesOfType(after, type) = BoxesOfType(Self, type)

\* C30: fast mode changes the animations played and nothing of the replayed
\* state: from a state that a replay reaches in fast mode and in normal mode
\* alike, every operation leaves the same data state, auxiliary views,
\* variables, comment, dependencies and temp annotations in both modes.
InMode(self, fast) == [self EXCEPT !.fast_mode = fast]

NoFlashYet ==
    \A i \in DOMAIN temp_elements : Get(temp_elements[i], "type") # "array_change_flash"

FastModeKeepsTheState ==
    (pc = "replay" /\ NoFlashYet) =>
        \A entry \in Vocabulary :
            Observable(Dispatch(InMode(Self, TRUE), entry))
                = Observable(Dispatch(InMode(Self, FALSE), entry))

====
